---- MODULE Spec2Model ----
(***************************************************************************)
(* Island of Storms: the two IBTrACS cleaning scripts                      *)
(* (clean_ibtracs_par_1950_2023.py, clean_ibtracs_par_1950_2023_landfall)  *)
(* and the ERA5 merge script (merge_era5_jsons_to_csv.py) as state         *)
(* machines over the files they read and write.                            *)
(*                                                                         *)
(* Conventions.  A CSV cell is a string.  A parsed numeric or datetime     *)
(* cell is a set: {v} for the value v, {} for NaN / NaT.  A missing string *)
(* cell is NaNStr.  A timestamp is the integer yyyymmdd.  A file is a      *)
(* record [exists, table]; the raw file also carries its header.          *)
(***************************************************************************)
EXTENDS Integers, Sequences, FiniteSets, TLC

VARIABLES
    script,      \* which cleaning script runs: "par" or "landfall"
    rawFile,     \* data/raw/IBTrACS/ibtracs_wp_full.csv.gz
    geoFile,     \* data/raw/boundaries/philippines.geojson
    tracksFile,  \* OUT_TRACKS_PATH of the running script
    stormsFile,  \* OUT_STORMS_PATH of the running script
    pc,          \* position of the script
    dataframe,   \* dataframe / df
    ids,         \* par_storm_ids / landfall_storm_ids
    tracks,      \* tracks_dataframe / tracks_df
    storms,      \* storms_dataframe / storms_df
    error,       \* the exception that ended the run, "" if none
    stdout,      \* the warnings printed so far
    runs,        \* number of runs of the script started so far
    prevOut,     \* the two output files as the previous run left them
    points,      \* points / pts: the array handed to contains_points
    docs,        \* the three ERA5 JSON documents, in JSON_FILES order
    outFile,     \* OUTPUT_CSV_PATH of the merge script
    mpc,         \* position of the merge script
    frames,      \* dataframes
    merged,      \* merged
    merror,      \* the exception that ended the merge script
    lons,        \* points_in_any_polygon / contains_points: the longitudes
    lats,        \* ... the latitudes
    paths,       \* ... the polygons
    hit,         \* ... the boolean array returned
    ppc,         \* position of the call: "start", "returned", "idle"
    disk,        \* the processed files the dashboard is pointed at, by path
    caseFold,    \* whether the file system ignores case in path names
    cache,       \* st.cache_data of the dashboard process: loader call -> table
    view,        \* what the last page run showed
    sidebar,     \* the widget values of the spatio-temporal explorer
    shown        \* what render_spatio_temporal_explorer last put on the page

cleanVars == <<script, rawFile, geoFile, tracksFile, stormsFile, pc, dataframe,
               ids, tracks, storms, error, stdout, runs, prevOut, points>>

mergeVars == <<docs, outFile, mpc, frames, merged, merror>>

pointVars == <<lons, lats, paths, hit, ppc>>

dashVars == <<disk, caseFold, cache, view>>

explorerVars == <<sidebar, shown>>

vars == <<cleanVars, mergeVars, pointVars, dashVars, explorerVars>>

\* what a step of the cleaning scripts, of the merge script and of a call of
\* the point functions leaves alone
notClean == <<mergeVars, pointVars, dashVars, explorerVars>>
notMerge == <<cleanVars, pointVars, dashVars, explorerVars>>
notPoints == <<cleanVars, mergeVars, dashVars, explorerVars>>
notDash == <<cleanVars, mergeVars, pointVars, explorerVars>>
notExplorer == <<cleanVars, mergeVars, pointVars, dashVars>>

-----------------------------------------------------------------------------
(* Bounds of the model *)

MaxRows == 3
MaxOdd == 1
MaxRuns == 2
MaxWind == 135
MaxAggRows == 2
MaxPts == 3
MaxPaths == 2

-----------------------------------------------------------------------------
(* Program constants *)

START_YEAR == 1950
END_YEAR == 2023
KEEP_NATURE == {"TD", "TS", "TY"}
USE_COLUMNS == {"SID", "ISO_TIME", "LAT", "LON", "NATURE", "USA_WIND"}
PAR_POLYGON == << <<115, 5>>, <<115, 15>>, <<120, 21>>, <<120, 25>>,
                  <<135, 25>>, <<135, 5>> >>

TS_MIN == 34
TY_MIN == 64
STY_MIN == 130

NaNStr == "NaN"
NaN == {}

-----------------------------------------------------------------------------
(* Generic helpers on sequences *)

Range(s) == {s[i] : i \in DOMAIN s}

SetMax(S) == CHOOSE m \in S : \A x \in S : x <= m
SetMin(S) == CHOOSE m \in S : \A x \in S : m <= x

RECURSIVE SetSum(_)
SetSum(S) == IF S = {} THEN 0
             ELSE LET x == CHOOSE y \in S : TRUE IN x + SetSum(S \ {x})

RECURSIVE SeqSum(_)
SeqSum(s) == IF s = <<>> THEN 0 ELSE Head(s) + SeqSum(Tail(s))

\* A two-part sort key compared lexicographically
LexLess(a, b) == a[1] < b[1] \/ (a[1] = b[1] /\ a[2] < b[2])

\* index i put into the sorted index list perm, after every index whose key
\* is not greater (a stable sort keeps the input order of equal keys)
RECURSIVE InsertIdx(_, _, _)
InsertIdx(i, perm, keys) ==
    IF perm = <<>> THEN <<i>>
    ELSE IF LexLess(keys[i], keys[Head(perm)]) THEN <<i>> \o perm
    ELSE <<Head(perm)>> \o InsertIdx(i, Tail(perm), keys)

RECURSIVE SortPerm(_, _)
SortPerm(keys, n) ==
    IF n = 0 THEN <<>> ELSE InsertIdx(n, SortPerm(keys, n - 1), keys)

\* the rows of s in ascending order of keys (keys[i] is the key of s[i])
StableSortBy(s, keys) ==
    LET perm == SortPerm(keys, Len(s))
    IN  [i \in 1..Len(s) |-> s[perm[i]]]

-----------------------------------------------------------------------------
(* Reading and coercing the raw CSV *)

\* the numeric literals that occur in the modelled raw files
NumericLiterals ==
    ("10" :> 10 @@ "16" :> 16 @@ "30" :> 30 @@ "70" :> 70 @@ "95" :> 95 @@
     "121" :> 121 @@ "130" :> 130 @@ "140" :> 140 @@ "190" :> 190)

\* the timestamp literals that occur in the modelled raw files
DatetimeLiterals ==
    ("1949-12-31" :> 19491231 @@ "2000-12-31" :> 20001231 @@
     "2001-01-01" :> 20010101)

\* pd.read_csv: an empty cell of a string column is NaN
ReadStr(c) == IF c = "" THEN NaNStr ELSE c

\* pd.to_numeric(errors="coerce"): the number, or NaN when the text is none
ToNumeric(c) == IF c \in DOMAIN NumericLiterals THEN {NumericLiterals[c]} ELSE NaN

\* pd.to_datetime(errors="coerce"): the timestamp, or NaT
ToDatetime(c) == IF c \in DOMAIN DatetimeLiterals THEN {DatetimeLiterals[c]} ELSE NaN

\* .dt.year of a timestamp
Year(t) == t \div 10000

Val(c) == CHOOSE v \in c : TRUE

\* read_csv(usecols=USE_COLUMNS) followed by the four coercions
Coerce(rows) ==
    [i \in 1..Len(rows) |->
        [SID      |-> ReadStr(rows[i].SID),
         ISO_TIME |-> ToDatetime(rows[i].ISO_TIME),
         LAT      |-> ToNumeric(rows[i].LAT),
         LON      |-> ToNumeric(rows[i].LON),
         NATURE   |-> ReadStr(rows[i].NATURE),
         USA_WIND |-> ToNumeric(rows[i].USA_WIND)]]

\* dropna(subset=["SID", "ISO_TIME", "LAT", "LON", WIND_COLUMN])
NotNa(r) == /\ r.SID # NaNStr
            /\ r.ISO_TIME # NaN
            /\ r.LAT # NaN
            /\ r.LON # NaN
            /\ r.USA_WIND # NaN

DropNa(rows) == SelectSeq(rows, NotNa)

\* dataframe["year"] = dataframe["ISO_TIME"].dt.year ; the columns are now
\* free of NaN, so the row carries the plain values
WithYear(rows) ==
    [i \in 1..Len(rows) |->
        [SID      |-> rows[i].SID,
         ISO_TIME |-> Val(rows[i].ISO_TIME),
         LAT      |-> Val(rows[i].LAT),
         LON      |-> Val(rows[i].LON),
         NATURE   |-> rows[i].NATURE,
         USA_WIND |-> Val(rows[i].USA_WIND),
         year     |-> Year(Val(rows[i].ISO_TIME))]]

\* InYears without the lower bound
InYearsNoStart(r) == r.year <= END_YEAR

InYears(r) == r.year >= START_YEAR /\ r.year <= END_YEAR

YearFilter(rows) == SelectSeq(rows, InYears)

IsKeptNature(r) == r.NATURE \in KEEP_NATURE

\* dataframe[dataframe["NATURE"].isin(KEEP_NATURE)] (PAR script only)
NatureFilter(rows) == SelectSeq(rows, IsKeptNature)

\* lines 45-58 of the PAR script / 114-122 of the landfall script
LoadFiltered(s, rows) ==
    LET base == YearFilter(WithYear(DropNa(Coerce(rows))))
    IN  IF s = "par" THEN NatureFilter(base) ELSE base

-----------------------------------------------------------------------------
(* Geometry *)

\* the edge a-b is crossed by the ray from (x, y) towards +x
Crosses(x, y, a, b) ==
    /\ (a[2] > y) # (b[2] > y)
    /\ IF b[2] > a[2]
       THEN (x - a[1]) * (b[2] - a[2]) < (y - a[2]) * (b[1] - a[1])
       ELSE (x - a[1]) * (b[2] - a[2]) > (y - a[2]) * (b[1] - a[1])

\* ContainsPoint with the point taken as (lat, lon)
ContainsPointLatLon(verts, x, y) ==
    LET n == Len(verts)
        crossings == {i \in 1..n : Crosses(y, x, verts[i], verts[(i % n) + 1])}
    IN  Cardinality(crossings) % 2 = 1

\* MplPath(verts).contains_points for one point off the boundary: the ray
\* crosses the (implicitly closed) ring an odd number of times
ContainsPoint(verts, x, y) ==
    LET n == Len(verts)
        crossings == {i \in 1..n : Crosses(x, y, verts[i], verts[(i % n) + 1])}
    IN  Cardinality(crossings) % 2 = 1

\* _ensure_lon_180
EnsureLon180(lon) == IF lon > 180 THEN lon - 360 ELSE lon

\* np.column_stack([xs, ys])
ColumnStack(xs, ys) == [i \in 1..Len(xs) |-> <<xs[i], ys[i]>>]

\* MplPath(verts).contains_points(pts)
ContainsPoints(verts, pts) ==
    [i \in 1..Len(pts) |-> ContainsPoint(verts, pts[i][1], pts[i][2])]

\* the loop of points_in_any_polygon: hit |= p.contains_points(pts) for
\* each path p of ps in turn
RECURSIVE OrPaths(_, _, _)
OrPaths(h, pts, ps) ==
    IF ps = <<>> THEN h
    ELSE OrPaths([i \in 1..Len(h) |-> h[i] \/ ContainsPoints(Head(ps), pts)[i]],
                 pts, Tail(ps))

\* PointsInAnyPolygon with the loop left after its first path
PointsInFirstPolygon(ln, lt, ps) ==
    LET pts == ColumnStack(ln, lt)
    IN  OrPaths([i \in 1..Len(pts) |-> FALSE], pts,
                IF ps = <<>> THEN <<>> ELSE <<Head(ps)>>)

\* points_in_any_polygon(lons, lats, paths)
PointsInAnyPolygon(ln, lt, ps) ==
    LET pts == ColumnStack(ln, lt)
    IN  OrPaths([i \in 1..Len(pts) |-> FALSE], pts, ps)

\* load_geojson_paths: the exception it raises ("" if none) and the paths
GeoGeometry(gj) ==
    IF gj.type = "FeatureCollection" THEN gj.features[1].geometry
    ELSE IF gj.type = "Feature" THEN gj.geometry
    ELSE gj

LoadGeojsonPaths(file) ==
    IF ~file.exists THEN [err |-> "FileNotFoundError", paths |-> <<>>]
    ELSE IF file.gj.type = "FeatureCollection" /\ file.gj.features = <<>>
    THEN [err |-> "ValueError", paths |-> <<>>]
    ELSE LET geom == GeoGeometry(file.gj)
             coords == geom.coordinates
         IN  IF geom.type = "Polygon"
             THEN [err |-> "", paths |-> <<coords[1]>>]
             ELSE IF geom.type = "MultiPolygon"
             THEN IF coords = <<>>
                  THEN [err |-> "ValueError", paths |-> <<>>]
                  ELSE [err |-> "", paths |-> [k \in 1..Len(coords) |-> coords[k][1]]]
             ELSE [err |-> "ValueError", paths |-> <<>>]

\* points = np.column_stack([LON, LAT]) (PAR script) and
\* pts = np.column_stack([LON_180, LAT]) (landfall script, inside
\* points_in_any_polygon)
PointsOf(s, rows) ==
    IF s = "par"
    THEN ColumnStack([i \in 1..Len(rows) |-> rows[i].LON],
                     [i \in 1..Len(rows) |-> rows[i].LAT])
    ELSE ColumnStack([i \in 1..Len(rows) |-> EnsureLon180(rows[i].LON)],
                     [i \in 1..Len(rows) |-> rows[i].LAT])

\* dataframe["in_par"] = par_path.contains_points(points)
FlagPar(rows) ==
    LET inPar == ContainsPoints(PAR_POLYGON, PointsOf("par", rows))
    IN  [i \in 1..Len(rows) |->
           [SID |-> rows[i].SID, ISO_TIME |-> rows[i].ISO_TIME,
            LAT |-> rows[i].LAT, LON |-> rows[i].LON,
            NATURE |-> rows[i].NATURE, USA_WIND |-> rows[i].USA_WIND,
            year |-> rows[i].year, in_par |-> inPar[i]]]

\* df["LON_180"] = ... ; df["on_ph_land"] = points_in_any_polygon(...)
FlagLand(rows, ps) ==
    LET lon180 == [i \in 1..Len(rows) |-> EnsureLon180(rows[i].LON)]
        onLand == PointsInAnyPolygon(lon180,
                                     [i \in 1..Len(rows) |-> rows[i].LAT], ps)
    IN  [i \in 1..Len(rows) |->
           [SID |-> rows[i].SID, ISO_TIME |-> rows[i].ISO_TIME,
            LAT |-> rows[i].LAT, LON |-> rows[i].LON,
            NATURE |-> rows[i].NATURE, USA_WIND |-> rows[i].USA_WIND,
            year |-> rows[i].year, LON_180 |-> lon180[i],
            on_ph_land |-> onLand[i]]]

\* the region flag of a flagged row of script s
InRegion(s, r) == IF s = "par" THEN r.in_par ELSE r.on_ph_land

\* RetainedIds with "every row in the region" for "some row in the region"
RetainedIdsAll(s, rows) ==
    {r.SID : r \in {q \in Range(rows) :
                      \A o \in Range(rows) : o.SID = q.SID => InRegion(s, o)}}

\* par_storm_ids / landfall_storm_ids
RetainedIds(s, rows) == {r.SID : r \in {q \in Range(rows) : InRegion(s, q)}}

\* ExpandTracks keeping only the rows that are themselves in the region
ExpandTracksInRegion(rows, sids) ==
    SelectSeq(rows, LAMBDA r : /\ r.SID \in sids
                               /\ IF "in_par" \in DOMAIN r THEN r.in_par
                                  ELSE r.on_ph_land)

\* dataframe[dataframe["SID"].isin(ids)]
ExpandTracks(rows, sids) == SelectSeq(rows, LAMBDA r : r.SID \in sids)

-----------------------------------------------------------------------------
(* De-duplication, ordering, aggregation *)

\* the lexicographic order of the storm identifiers of the modelled inputs
SidRank == ("A" :> 1 @@ "B" :> 2)

\* the rows of s at the indices in keep, in order, from index i on
RECURSIVE Pick(_, _, _)
Pick(s, keep, i) ==
    IF i > Len(s) THEN <<>>
    ELSE (IF i \in keep THEN <<s[i]>> ELSE <<>>) \o Pick(s, keep, i + 1)

\* DupKey with the wind column added to the subset
DupKeyWithWind(s, r) ==
    IF s = "par" THEN <<r.SID, r.ISO_TIME, r.LAT, r.LON, r.USA_WIND>>
    ELSE <<r.SID, r.ISO_TIME, r.LAT, r.LON_180, r.USA_WIND>>

\* DupKey without the position columns
DupKeySidTime(s, r) == <<r.SID, r.ISO_TIME>>

\* subset=["SID", "ISO_TIME", "LAT", "LON"] (PAR) / [..., "LON_180"] (landfall)
DupKey(s, r) ==
    IF s = "par" THEN <<r.SID, r.ISO_TIME, r.LAT, r.LON>>
    ELSE <<r.SID, r.ISO_TIME, r.LAT, r.LON_180>>

\* DropDuplicates with keep="last"
DropDuplicatesKeepLast(s, rows) ==
    Pick(rows,
         {i \in 1..Len(rows) :
             \A j \in (i + 1)..Len(rows) : DupKey(s, rows[j]) # DupKey(s, rows[i])},
         1)

\* drop_duplicates(subset=...): keep="first"
DropDuplicates(s, rows) ==
    Pick(rows,
         {i \in 1..Len(rows) :
             \A j \in 1..(i - 1) : DupKey(s, rows[j]) # DupKey(s, rows[i])},
         1)

\* sort_values(["SID", "ISO_TIME"]).reset_index(drop=True)
SortTracks(rows) ==
    StableSortBy(rows, [i \in 1..Len(rows) |->
                          <<SidRank[rows[i].SID], rows[i].ISO_TIME>>])

\* tracks_dataframe.duplicated(subset=..., keep=False) and the three counts
\* the PAR script prints about it
DupGroups(s, rows) ==
    {k \in {DupKey(s, r) : r \in Range(rows)} :
        Cardinality({i \in 1..Len(rows) : DupKey(s, rows[i]) = k}) > 1}

WindSpreadGroups(s, rows) ==
    {k \in DupGroups(s, rows) :
        Cardinality({rows[i].USA_WIND : i \in {j \in 1..Len(rows) :
                                                  DupKey(s, rows[j]) = k}}) > 1}

\* GroupKey with the year added to the grouping columns
GroupKeyYear(r) == <<SidRank[r.SID], r.year>>

\* groupby("SID"): the key of a row's group, as a sort key
GroupKey(r) == <<SidRank[r.SID], 0>>

\* the keys of a set in ascending order (groupby sorts its groups)
RECURSIVE SortedKeys(_)
SortedKeys(K) ==
    IF K = {} THEN <<>>
    ELSE LET m == CHOOSE k \in K : \A o \in K \ {k} : LexLess(k, o)
         IN  <<m>> \o SortedKeys(K \ {m})

\* the rows of one group, in table order
GroupRows(rows, k) == SelectSeq(rows, LAMBDA r : GroupKey(r) = k)

\* a mean, kept exact: <<sum, count>>
Mean(vals) == <<SeqSum(vals), Len(vals)>>

\* AggPar with max_wind=(WIND_COLUMN, "min")
AggParMinWind(g) ==
    [SID            |-> g[1].SID,
     start_time     |-> SetMin({r.ISO_TIME : r \in Range(g)}),
     end_time       |-> SetMax({r.ISO_TIME : r \in Range(g)}),
     start_year     |-> SetMin({r.year : r \in Range(g)}),
     max_wind       |-> {SetMin({r.USA_WIND : r \in Range(g)})},
     n_track_points |-> Len(g),
     mean_lat       |-> Mean([i \in 1..Len(g) |-> g[i].LAT]),
     mean_lon       |-> Mean([i \in 1..Len(g) |-> g[i].LON])]

\* .agg(start_time=..., ..., mean_lon=...) over one group (PAR script)
AggPar(g) ==
    [SID            |-> g[1].SID,
     start_time     |-> SetMin({r.ISO_TIME : r \in Range(g)}),
     end_time       |-> SetMax({r.ISO_TIME : r \in Range(g)}),
     start_year     |-> SetMin({r.year : r \in Range(g)}),
     max_wind       |-> {SetMax({r.USA_WIND : r \in Range(g)})},
     n_track_points |-> Len(g),
     mean_lat       |-> Mean([i \in 1..Len(g) |-> g[i].LAT]),
     mean_lon       |-> Mean([i \in 1..Len(g) |-> g[i].LON])]

\* AggLand with n_track_points=("ISO_TIME", "nunique")
AggLandNunique(g) ==
    [SID            |-> g[1].SID,
     start_time     |-> SetMin({r.ISO_TIME : r \in Range(g)}),
     end_time       |-> SetMax({r.ISO_TIME : r \in Range(g)}),
     start_year     |-> SetMin({r.year : r \in Range(g)}),
     max_wind       |-> {SetMax({r.USA_WIND : r \in Range(g)})},
     n_track_points |-> Cardinality({r.ISO_TIME : r \in Range(g)}),
     mean_lat       |-> Mean([i \in 1..Len(g) |-> g[i].LAT]),
     mean_lon       |-> Mean([i \in 1..Len(g) |-> g[i].LON_180]),
     any_landfall   |-> \E r \in Range(g) : r.on_ph_land]

\* the same over one group of the landfall script
AggLand(g) ==
    [SID            |-> g[1].SID,
     start_time     |-> SetMin({r.ISO_TIME : r \in Range(g)}),
     end_time       |-> SetMax({r.ISO_TIME : r \in Range(g)}),
     start_year     |-> SetMin({r.year : r \in Range(g)}),
     max_wind       |-> {SetMax({r.USA_WIND : r \in Range(g)})},
     n_track_points |-> Len(g),
     mean_lat       |-> Mean([i \in 1..Len(g) |-> g[i].LAT]),
     mean_lon       |-> Mean([i \in 1..Len(g) |-> g[i].LON_180]),
     any_landfall   |-> \E r \in Range(g) : r.on_ph_land]

\* .sort_values(["start_year", "SID"]).reset_index(drop=True)
SortStorms(rows) ==
    StableSortBy(rows, [i \in 1..Len(rows) |->
                          <<rows[i].start_year, SidRank[rows[i].SID]>>])

\* storms_dataframe before the scoped columns (PAR script, lines 96-110)
StormsPar(trk) ==
    LET keys == SortedKeys({GroupKey(r) : r \in Range(trk)})
    IN  SortStorms([i \in 1..Len(keys) |-> AggPar(GroupRows(trk, keys[i]))])

\* ParMaxWind with the missing value filled with 0 (fillna(0))
ParMaxWindZero(trk, sid) ==
    LET w == {r.USA_WIND : r \in {q \in Range(trk) : q.SID = sid /\ q.in_par}}
    IN  IF w = {} THEN {0} ELSE {SetMax(w)}

\* par_max: the maximum wind over a storm's in_par rows, NaN when it has none
\* (the left merge of line 119)
ParMaxWind(trk, sid) ==
    LET w == {r.USA_WIND : r \in {q \in Range(trk) : q.SID = sid /\ q.in_par}}
    IN  IF w = {} THEN NaN ELSE {SetMax(w)}

\* lf_first: the on-land rows in (SID, ISO_TIME) order, then per storm the
\* first non-null value of each column (GroupBy.first skips nulls)
LandRows(trk, sid) ==
    SelectSeq(SortTracks(SelectSeq(trk, LAMBDA r : r.on_ph_land)),
              LAMBDA r : r.SID = sid)

FirstNonNullNature(g) ==
    LET idx == {i \in 1..Len(g) : g[i].NATURE # NaNStr}
    IN  IF idx = {} THEN NaNStr ELSE g[SetMin(idx)].NATURE

LfFirst(trk, sid) ==
    LET g == LandRows(trk, sid)
    IN  IF g = <<>>
        THEN [first_landfall_time |-> NaN, first_landfall_lat |-> NaN,
              first_landfall_lon |-> NaN, first_landfall_wind |-> NaN,
              first_landfall_nature |-> NaNStr]
        ELSE [first_landfall_time |-> {g[1].ISO_TIME},
              first_landfall_lat |-> {g[1].LAT},
              first_landfall_lon |-> {g[1].LON_180},
              first_landfall_wind |-> {g[1].USA_WIND},
              first_landfall_nature |-> FirstNonNullNature(g)]

-----------------------------------------------------------------------------
(* Intensity labels *)

\* a comparison with NaN is False
Ge(w, x) == \E v \in w : v >= x

\* Label with > written for >=
LabelStrict(w) ==
    LET l1 == IF \E v \in w : v > TS_MIN THEN "TS" ELSE "TD"
        l2 == IF \E v \in w : v > TY_MIN THEN "TY" ELSE l1
        l3 == IF \E v \in w : v > STY_MIN THEN "STY" ELSE l2
    IN  l3

\* the column set to "TD" and then overwritten where the wind is >= 34, 64, 130
Label(w) ==
    LET l0 == "TD"
        l1 == IF Ge(w, TS_MIN) THEN "TS" ELSE l0
        l2 == IF Ge(w, TY_MIN) THEN "TY" ELSE l1
        l3 == IF Ge(w, STY_MIN) THEN "STY" ELSE l2
    IN  l3

\* storms_dataframe with par_max_wind merged in (PAR script, lines 96-119)
AggregatePar(trk) ==
    LET base == StormsPar(trk)
    IN  [i \in 1..Len(base) |->
            [SID |-> base[i].SID, start_time |-> base[i].start_time,
             end_time |-> base[i].end_time, start_year |-> base[i].start_year,
             max_wind |-> base[i].max_wind,
             n_track_points |-> base[i].n_track_points,
             mean_lat |-> base[i].mean_lat, mean_lon |-> base[i].mean_lon,
             par_max_wind |-> ParMaxWind(trk, base[i].SID)]]

\* storms_df with lf_first merged in (landfall script, lines 147-178)
AggregateLand(trk) ==
    LET keys == SortedKeys({GroupKey(r) : r \in Range(trk)})
        base == SortStorms([i \in 1..Len(keys) |->
                               AggLand(GroupRows(trk, keys[i]))])
    IN  [i \in 1..Len(base) |->
            LET lf == LfFirst(trk, base[i].SID)
            IN  [SID |-> base[i].SID, start_time |-> base[i].start_time,
                 end_time |-> base[i].end_time, start_year |-> base[i].start_year,
                 max_wind |-> base[i].max_wind,
                 n_track_points |-> base[i].n_track_points,
                 mean_lat |-> base[i].mean_lat, mean_lon |-> base[i].mean_lon,
                 any_landfall |-> base[i].any_landfall,
                 first_landfall_time |-> lf.first_landfall_time,
                 first_landfall_lat |-> lf.first_landfall_lat,
                 first_landfall_lon |-> lf.first_landfall_lon,
                 first_landfall_wind |-> lf.first_landfall_wind,
                 first_landfall_nature |-> lf.first_landfall_nature]]

AggregateStorms(s, trk) ==
    IF s = "par" THEN AggregatePar(trk) ELSE AggregateLand(trk)

\* the scoped wind of a storms row: par_max_wind / first_landfall_wind
ScopedWind(s, st) == IF s = "par" THEN st.par_max_wind ELSE st.first_landfall_wind

\* lines 127-137 (PAR) / 180-191 (landfall): the two label columns are added
\* to every row of the storms table
AssignLabels(s, table) ==
    [i \in 1..Len(table) |->
        table[i] @@
        ("peak_intensity" :> Label(table[i].max_wind)) @@
        ((IF s = "par" THEN "par_peak_intensity" ELSE "landfall_intensity")
            :> Label(ScopedWind(s, table[i])))]

\* the label derived from it: par_peak_intensity / landfall_intensity
ScopedLabel(s, st) ==
    IF s = "par" THEN st.par_peak_intensity ELSE st.landfall_intensity

\* ToCsv that writes nothing when the table has no rows
ToCsvSkipEmpty(old, table) ==
    IF table = <<>> THEN old ELSE [exists |-> TRUE, table |-> table]

\* ToCsv opened for exclusive creation (mode="x"), the error ignored: an
\* existing file is left as it is
ToCsvKeepExisting(old, table) ==
    IF old.exists THEN old ELSE [exists |-> TRUE, table |-> table]

\* ToCsv opened in append mode (mode="a")
ToCsvAppend(old, table) == [exists |-> TRUE, table |-> old.table \o table]

\* DataFrame.to_csv(path, index=False): the file is replaced by the table
ToCsv(old, table) == [exists |-> TRUE, table |-> table]

-----------------------------------------------------------------------------
(* The inputs the scripts are run on *)

RawRow(sid, time, lat, lon, nature, wind) ==
    [SID |-> sid, ISO_TIME |-> time, LAT |-> lat, LON |-> lon,
     NATURE |-> nature, USA_WIND |-> wind]

\* well-formed tropical rows of two storms: A on Luzon (twice at one time
\* and place with different winds, and once a day later, in the next year),
\* at sea inside the PAR and outside the PAR; B on Luzon and outside the PAR
BaseRows ==
    {RawRow("A", "2000-12-31", "16", "121", "TS", "30"),
     RawRow("A", "2000-12-31", "16", "121", "TS", "70"),
     RawRow("A", "2001-01-01", "16", "121", "TS", "30"),
     RawRow("A", "2000-12-31", "10", "130", "TS", "70"),
     RawRow("A", "2001-01-01", "30", "140", "TS", "70"),
     RawRow("B", "2000-12-31", "16", "121", "TS", "70"),
     RawRow("B", "2000-12-31", "30", "140", "TS", "30")}

\* irregular rows: a super-typhoon wind; a non-tropical NATURE on Luzon and
\* outside the PAR; a missing NATURE; a missing SID, LAT or wind; an
\* unparseable time; a year before START_YEAR; a latitude beyond the pole; a
\* longitude in the 0..360 convention
OddRows ==
    {RawRow("A", "2000-12-31", "16", "121", "TS", "140"),
     RawRow("A", "2000-12-31", "16", "121", "ET", "70"),
     RawRow("A", "2000-12-31", "16", "121", "", "70"),
     RawRow("", "2000-12-31", "16", "121", "TS", "70"),
     RawRow("A", "not a date", "16", "121", "TS", "70"),
     RawRow("A", "1949-12-31", "16", "121", "TS", "70"),
     RawRow("A", "2000-12-31", "", "121", "TS", "70"),
     RawRow("A", "2001-01-01", "30", "140", "ET", "70"),
     RawRow("A", "2000-12-31", "16", "121", "TS", ""),
     RawRow("A", "2001-01-01", "95", "130", "TS", "30"),
     RawRow("A", "2001-01-01", "10", "190", "TS", "30")}

RawRowDomain == BaseRows \cup OddRows

\* the raw tables of at most n rows, at most MaxOdd of them irregular
RawTables(n) ==
    UNION {{t \in [1..k -> RawRowDomain] :
              Cardinality({i \in 1..k : t[i] \in OddRows}) <= MaxOdd} :
           k \in 0..n}

\* the header of the raw file: the required columns among others
FullHeader == USE_COLUMNS \cup {"SEASON", "BASIN"}

NoRawFile == [exists |-> FALSE, header |-> {}, rows |-> <<>>]

RawInputs ==
    {NoRawFile}
    \cup {[exists |-> TRUE, header |-> FullHeader, rows |-> r] :
            r \in RawTables(MaxRows)}
    \cup {[exists |-> TRUE, header |-> FullHeader \ {c}, rows |-> r] :
            c \in USE_COLUMNS, r \in RawTables(1)}

\* a landmass of two islands, each a closed exterior ring of [lon, lat]
LandRings ==
    << << << <<120, 14>>, <<120, 18>>, <<122, 18>>, <<122, 14>>, <<120, 14>> >> >>,
       << << <<124, 6>>, <<124, 9>>, <<126, 9>>, <<126, 6>>, <<124, 6>> >> >> >>

GeoPresent ==
    [exists |-> TRUE,
     gj |-> [type |-> "FeatureCollection",
             features |-> << [geometry |-> [type |-> "MultiPolygon",
                                            coordinates |-> LandRings]] >>]]

GeoAbsent == [exists |-> FALSE, gj |-> [type |-> "none"]]

NoFile == [exists |-> FALSE, table |-> <<>>]

-----------------------------------------------------------------------------
(* The ERA5 merge script *)

MaxKeys == 3

COLUMN_ORDER ==
    <<"year", "cdd", "r50mm", "r95ptot", "cwd", "rx1day", "rx5day", "pr",
      "prpercent", "r20mm">>

\* the date keys of the modelled documents, ascending, and
\* pd.to_datetime(key).year of each
DateKeys == <<"2000-07", "2001-01", "2001-07", "2002-07">>

DateKeyYear ==
    ("2000-07" :> 2000 @@ "2001-01" :> 2001 @@ "2001-07" :> 2001 @@
     "2002-07" :> 2002)

\* rename(columns={"prpercnt": "prpercent"})
Rename(v) == IF v = "prpercnt" THEN "prpercent" ELSE v

\* a missing cell of a frame
NaNCell == <<"NaN", "NaN">>

\* json_to_dataframe: a document [vars, keys] holds under data[v]["PHL"][k]
\* the value <<v, k>>; the frame has the column year and one column per series
JsonToDataframe(doc) ==
    [columns |-> <<"year">> \o [i \in 1..Len(doc.vars) |-> Rename(doc.vars[i])],
     rows |-> [k \in 1..Len(doc.keys) |->
                 [year  |-> DateKeyYear[doc.keys[k]],
                  cells |-> [c \in {Rename(v) : v \in Range(doc.vars)} |->
                               <<CHOOSE v \in Range(doc.vars) : Rename(v) = c,
                                 doc.keys[k]>>]]]]

\* the suffixes DataFrame.merge gives a column both frames have
SuffixX ==
    ("cdd" :> "cdd_x" @@ "r50mm" :> "r50mm_x" @@ "r95ptot" :> "r95ptot_x" @@
     "cwd" :> "cwd_x" @@ "rx1day" :> "rx1day_x" @@ "rx5day" :> "rx5day_x" @@
     "pr" :> "pr_x" @@ "prpercent" :> "prpercent_x" @@ "r20mm" :> "r20mm_x")

SuffixY ==
    ("cdd" :> "cdd_y" @@ "r50mm" :> "r50mm_y" @@ "r95ptot" :> "r95ptot_y" @@
     "cwd" :> "cwd_y" @@ "rx1day" :> "rx1day_y" @@ "rx5day" :> "rx5day_y" @@
     "pr" :> "pr_y" @@ "prpercent" :> "prpercent_y" @@ "r20mm" :> "r20mm_y")

RECURSIVE Flatten(_)
Flatten(ss) == IF ss = <<>> THEN <<>> ELSE Head(ss) \o Flatten(Tail(ss))

LeftName(c, overlap) == IF c \in overlap THEN SuffixX[c] ELSE c
RightName(c, overlap) == IF c \in overlap THEN SuffixY[c] ELSE c

\* the row of the join made of the left row a and the right row b
JoinRow(a, b, overlap) ==
    [year  |-> a.year,
     cells |-> [c \in {LeftName(x, overlap) : x \in DOMAIN a.cells}
                      \cup {RightName(x, overlap) : x \in DOMAIN b.cells} |->
                   IF \E x \in DOMAIN a.cells : LeftName(x, overlap) = c
                   THEN a.cells[CHOOSE x \in DOMAIN a.cells :
                                    LeftName(x, overlap) = c]
                   ELSE b.cells[CHOOSE x \in DOMAIN b.cells :
                                    RightName(x, overlap) = c]]]

MergedColumns(l, r, overlap) ==
    LET rest == SelectSeq(r.columns, LAMBDA c : c # "year")
    IN  [i \in 1..Len(l.columns) |-> LeftName(l.columns[i], overlap)]
        \o [i \in 1..Len(rest) |-> RightName(rest[i], overlap)]

\* MergeOnYear as a left join: a left row without a match is kept
MergeLeftJoin(l, r) ==
    LET overlap == (Range(l.columns) \cap Range(r.columns)) \ {"year"}
        blank == [year |-> 0,
                  cells |-> [c \in Range(r.columns) \ {"year"} |-> NaNCell]]
        Matches(a) ==
            LET m == SelectSeq(r.rows, LAMBDA b : b.year = a.year)
            IN  IF m = <<>> THEN <<JoinRow(a, blank, overlap)>>
                ELSE [j \in 1..Len(m) |-> JoinRow(a, m[j], overlap)]
    IN  [columns |-> MergedColumns(l, r, overlap),
         rows |-> Flatten([i \in 1..Len(l.rows) |-> Matches(l.rows[i])])]

\* merged.merge(dataframe, on="year", how="inner"): every pair of a left and
\* a right row of the same year, in the order of the left rows
MergeOnYear(l, r) ==
    LET overlap == (Range(l.columns) \cap Range(r.columns)) \ {"year"}
        Matches(a) ==
            LET m == SelectSeq(r.rows, LAMBDA b : b.year = a.year)
            IN  [j \in 1..Len(m) |-> JoinRow(a, m[j], overlap)]
    IN  [columns |-> MergedColumns(l, r, overlap),
         rows |-> Flatten([i \in 1..Len(l.rows) |-> Matches(l.rows[i])])]

\* merged.sort_values("year").reset_index(drop=True)
SortByYear(f) ==
    [columns |-> f.columns,
     rows |-> StableSortBy(f.rows, [i \in 1..Len(f.rows) |-> <<f.rows[i].year, 0>>])]

\* lines 51-58: the frames merged left to right, then sorted
MergeAll(fs) == SortByYear(MergeOnYear(MergeOnYear(fs[1], fs[2]), fs[3]))

\* MissingColumns with the check left out
MissingColumnsUnchecked(cols) == <<>>

\* missing = [c for c in COLUMN_ORDER if c not in merged.columns]
MissingColumns(cols) == SelectSeq(COLUMN_ORDER, LAMBDA c : c \notin Range(cols))

\* merged[COLUMN_ORDER] (reached only with every column present; a column
\* that is absent is left out)
SelectColumns(f) ==
    [columns |-> SelectSeq(COLUMN_ORDER, LAMBDA c : c \in Range(f.columns)),
     rows |-> [i \in 1..Len(f.rows) |->
                 [year  |-> f.rows[i].year,
                  cells |-> [c \in (Range(COLUMN_ORDER) \ {"year"})
                                   \cap DOMAIN f.rows[i].cells |->
                               f.rows[i].cells[c]]]]]

\* the series names of the three documents: as shipped, with a series the
\* column order does not name, with a series two documents share, and with
\* a declared series missing
SeriesVariants ==
    {<< <<"cdd", "r50mm", "r95ptot">>, <<"cwd", "rx1day", "rx5day">>,
        <<"pr", "prpercnt", "r20mm">> >>,
     << <<"cdd", "r50mm", "r95ptot", "tx">>, <<"cwd", "rx1day", "rx5day">>,
        <<"pr", "prpercnt", "r20mm">> >>,
     << <<"cdd", "r50mm", "r95ptot">>, <<"cwd", "rx1day", "rx5day", "pr">>,
        <<"pr", "prpercnt", "r20mm">> >>,
     << <<"cdd", "r50mm", "r95ptot">>, <<"cwd", "rx1day", "rx5day">>,
        <<"pr", "prpercnt">> >>}

\* the key lists of a document: 1..MaxKeys distinct keys, in any order, and
\* those in ascending order
KeyLists ==
    UNION {{s \in [1..n -> Range(DateKeys)] :
              \A i, j \in 1..n : i # j => s[i] # s[j]} : n \in 1..MaxKeys}

KeyIndex(k) == CHOOSE i \in 1..Len(DateKeys) : DateKeys[i] = k

AscendingKeyLists ==
    {s \in KeyLists :
        \A i, j \in 1..Len(s) : i < j => KeyIndex(s[i]) < KeyIndex(s[j])}

\* the merged CSV an earlier run left
OldMergedFile ==
    [exists |-> TRUE,
     table |-> SelectColumns(MergeAll(
         <<JsonToDataframe([vars |-> <<"cdd", "r50mm", "r95ptot">>,
                            keys |-> <<"2000-07">>]),
           JsonToDataframe([vars |-> <<"cwd", "rx1day", "rx5day">>,
                            keys |-> <<"2000-07">>]),
           JsonToDataframe([vars |-> <<"pr", "prpercnt", "r20mm">>,
                            keys |-> <<"2000-07">>])>>))]

NoError == [type |-> "", cols |-> <<>>]

EmptyFrame == [columns |-> <<>>, rows |-> <<>>]

InitMerge ==
    /\ \E v \in SeriesVariants, k1 \in KeyLists,
          k2 \in AscendingKeyLists, k3 \in AscendingKeyLists :
           docs = <<[vars |-> v[1], keys |-> k1], [vars |-> v[2], keys |-> k2],
                    [vars |-> v[3], keys |-> k3]>>
    /\ outFile \in {NoFile, OldMergedFile}
    /\ mpc = "start"
    /\ frames = <<>>
    /\ merged = EmptyFrame
    /\ merror = NoError

\* the merge script is not running
IdleMerge ==
    /\ docs = <<>>
    /\ outFile = NoFile
    /\ mpc = "idle"
    /\ frames = <<>>
    /\ merged = EmptyFrame
    /\ merror = NoError

\* dataframes = [json_to_dataframe(...) for filename in JSON_FILES]
MLoad ==
    /\ mpc = "start"
    /\ frames' = [i \in 1..Len(docs) |-> JsonToDataframe(docs[i])]
    /\ mpc' = "loaded"
    /\ UNCHANGED <<docs, outFile, merged, merror>>
    /\ UNCHANGED notMerge

\* the inner joins on year and the sort
MMerge ==
    /\ mpc = "loaded"
    /\ merged' = MergeAll(frames)
    /\ mpc' = "merged"
    /\ UNCHANGED <<docs, outFile, frames, merror>>
    /\ UNCHANGED notMerge

\* a declared column is missing: KeyError
MCheckFail ==
    /\ mpc = "merged"
    /\ MissingColumns(merged.columns) # <<>>
    /\ merror' = [type |-> "KeyError", cols |-> MissingColumns(merged.columns)]
    /\ mpc' = "failed"
    /\ UNCHANGED <<docs, outFile, frames, merged>>
    /\ UNCHANGED notMerge

\* merged = merged[COLUMN_ORDER] ; merged.to_csv(OUTPUT_CSV_PATH, index=False)
MWrite ==
    /\ mpc = "merged"
    /\ MissingColumns(merged.columns) = <<>>
    /\ merged' = SelectColumns(merged)
    /\ outFile' = ToCsv(outFile, merged')
    /\ mpc' = "written"
    /\ UNCHANGED <<docs, frames, merror>>
    /\ UNCHANGED notMerge

NextMerge ==
    \/ MLoad
    \/ MMerge
    \/ MCheckFail
    \/ MWrite

-----------------------------------------------------------------------------
(* Paths of the processed files *)

\* OUT_TRACKS_PATH, OUT_STORMS_PATH of the PAR script and of the landfall
\* script, OUTPUT_CSV_PATH of the merge script
PAR_OUT_TRACKS_PATH == "data/processed/IBTrACS/v3/ibtracs_par_1950_2023_tracks_3.csv"
PAR_OUT_STORMS_PATH == "data/processed/IBTrACS/v3/ibtracs_par_1950_2023_storms_3.csv"
LANDFALL_OUT_TRACKS_PATH ==
    "data/processed/IBTrACS/v4_landfall/ibtracs_ph_landfall_1950_2023_tracks.csv"
LANDFALL_OUT_STORMS_PATH ==
    "data/processed/IBTrACS/v4_landfall/ibtracs_ph_landfall_1950_2023_storms.csv"
OUTPUT_CSV_PATH == "data/processed/ERA5/merged_era5_data.csv"

\* the paths the dashboard reads: PAR_V3 / PAR_V3_STORMS, LANDFALL_V4 /
\* LANDFALL_V4_STORMS / STORMS_V4, TRACKS_V4, ERA5_MERGED_CSV_PATH, and
\* STORMS_CSV of app.py
PAR_V3 == "data/processed/IBTrACS/v3_within_par/ibtracs_par_1950_2023_storms_3.csv"
LANDFALL_V4 ==
    "data/processed/IBTrACS/v4_landfall/ibtracs_ph_landfall_1950_2023_storms.csv"
TRACKS_V4 ==
    "data/processed/IBTrACS/v4_landfall/ibtracs_ph_landfall_1950_2023_tracks.csv"
ERA5_MERGED_CSV_PATH == "data/processed/era5/merged_era5_data.csv"
STORMS_CSV == "data/processed/IBTrACS/v2/ibtracs_par_1950_2023_storms_2.csv"

ProcessedPaths ==
    {PAR_OUT_TRACKS_PATH, PAR_OUT_STORMS_PATH, LANDFALL_OUT_TRACKS_PATH,
     LANDFALL_OUT_STORMS_PATH, OUTPUT_CSV_PATH, PAR_V3, ERA5_MERGED_CSV_PATH,
     STORMS_CSV}

\* no page has run in this process
NoView == [page |-> "", status |-> "", tables |-> <<>>, keys |-> <<>>, read |-> {}]

\* the explorer before its sidebar exists, and before it has put anything on
\* the page
NoSidebar ==
    [year_min |-> 0, year_max |-> 0, intensities |-> {}, map_mode |-> "",
     color_mode |-> "", land_only |-> FALSE]

NoShown == [status |-> "", storms_f |-> <<>>, pts |-> <<>>, paths |-> <<>>]

IdleExplorer == sidebar = NoSidebar /\ shown = NoShown

\* the dashboard is not running and no processed file exists
IdleDash ==
    /\ disk = [q \in ProcessedPaths |-> NoFile]
    /\ caseFold = FALSE
    /\ cache = <<>>
    /\ view = NoView
    /\ IdleExplorer

-----------------------------------------------------------------------------
(* The point functions called on their own *)

\* points given to the functions, as <<lon, lat>>: on each of the two
\* islands of LandRings, at the PAR reference location, at sea in the PAR,
\* on the opposite side of the globe, and east of the PAR in the 0..360
\* convention (none on a polygon's boundary)
PointDomain ==
    {<<121, 16>>, <<125, 7>>, <<125, 15>>, <<130, 10>>, <<-55, -15>>, <<190, 10>>}

\* polygons given to points_in_any_polygon: the exterior rings of LandRings
\* and the PAR polygon
PathDomain == {LandRings[1][1], LandRings[2][1], PAR_POLYGON}

PointLists == UNION {[1..n -> PointDomain] : n \in 0..MaxPts}

PathLists == UNION {[1..n -> PathDomain] : n \in 0..MaxPaths}

\* a call of points_in_any_polygon ("start") or of the PAR script's
\* par_path.contains_points ("start_par") is about to be made
InitPoints ==
    /\ \E pts \in PointLists :
          /\ lons = [i \in 1..Len(pts) |-> pts[i][1]]
          /\ lats = [i \in 1..Len(pts) |-> pts[i][2]]
    /\ \/ ppc = "start" /\ paths \in PathLists
       \/ ppc = "start_par" /\ paths = <<PAR_POLYGON>>
    /\ hit = <<>>

\* hit = points_in_any_polygon(lons, lats, paths)
CallPointsInAnyPolygon ==
    /\ ppc = "start"
    /\ hit' = PointsInAnyPolygon(lons, lats, paths)
    /\ ppc' = "returned"
    /\ UNCHANGED <<lons, lats, paths>>
    /\ UNCHANGED notPoints

\* PAR lines 61-63: par_path.contains_points(column_stack([LON, LAT]))
CallParContainsPoints ==
    /\ ppc = "start_par"
    /\ hit' = ContainsPoints(PAR_POLYGON, ColumnStack(lons, lats))
    /\ ppc' = "returned_par"
    /\ UNCHANGED <<lons, lats, paths>>
    /\ UNCHANGED notPoints

NextPoints ==
    \/ CallPointsInAnyPolygon
    \/ CallParContainsPoints

\* no call of the point functions is under way
IdlePoints ==
    /\ lons = <<>>
    /\ lats = <<>>
    /\ paths = <<>>
    /\ hit = <<>>
    /\ ppc = "idle"

-----------------------------------------------------------------------------
(* The cleaning scripts *)

\* BasicCheckError without the required-columns check
BasicCheckErrorNoHeader(s, raw, geo) ==
    IF ~raw.exists THEN "FileNotFoundError"
    ELSE IF s = "landfall" THEN LoadGeojsonPaths(geo).err
    ELSE ""

\* lines 30-40 (PAR) / 95-109 (landfall): the exception the checks raise,
\* "" when they pass
BasicCheckError(s, raw, geo) ==
    IF ~raw.exists THEN "FileNotFoundError"
    ELSE IF USE_COLUMNS \ raw.header # {} THEN "KeyError"
    ELSE IF s = "landfall" THEN LoadGeojsonPaths(geo).err
    ELSE ""

InitClean ==
    /\ script \in {"par", "landfall"}
    /\ \/ geoFile = GeoPresent /\ rawFile \in RawInputs
       \/ /\ script = "landfall"
          /\ geoFile = GeoAbsent
          /\ rawFile \in {[exists |-> TRUE, header |-> FullHeader, rows |-> r] :
                            r \in RawTables(1)}
    /\ tracksFile = NoFile
    /\ stormsFile = NoFile
    /\ pc = "start"
    /\ dataframe = <<>>
    /\ ids = {}
    /\ tracks = <<>>
    /\ storms = <<>>
    /\ error = ""
    /\ stdout = {}
    /\ runs = 1
    /\ prevOut = [tracks |-> NoFile, storms |-> NoFile]
    /\ points = <<>>

\* a check fails: the script raises and ends
CheckFail ==
    /\ pc = "start"
    /\ BasicCheckError(script, rawFile, geoFile) # ""
    /\ error' = BasicCheckError(script, rawFile, geoFile)
    /\ pc' = "failed"
    /\ UNCHANGED <<script, rawFile, geoFile, tracksFile, stormsFile, dataframe,
                   ids, tracks, storms, stdout, runs, prevOut,
                   points>>
    /\ UNCHANGED notClean

\* the checks pass: read, coerce, drop and filter the rows
Load ==
    /\ pc = "start"
    /\ BasicCheckError(script, rawFile, geoFile) = ""
    /\ dataframe' = LoadFiltered(script, rawFile.rows)
    /\ pc' = "loaded"
    /\ UNCHANGED <<script, rawFile, geoFile, tracksFile, stormsFile, ids, tracks,
                   storms, error, stdout, runs, prevOut,
                   points>>
    /\ UNCHANGED notClean

\* the spatial test, the retained storms and their full tracks
Flag ==
    /\ pc = "loaded"
    /\ LET flagged == IF script = "par" THEN FlagPar(dataframe)
                      ELSE FlagLand(dataframe, LoadGeojsonPaths(geoFile).paths)
           kept == RetainedIds(script, flagged)
       IN  /\ dataframe' = flagged
           /\ ids' = kept
           /\ tracks' = ExpandTracks(flagged, kept)
           /\ points' = PointsOf(script, dataframe)
           /\ stdout' = IF kept = {}
                        THEN stdout \cup {[msg |-> "no storms", n |-> 0]}
                        ELSE stdout
    /\ pc' = "flagged"
    /\ UNCHANGED <<script, rawFile, geoFile, tracksFile, stormsFile, storms,
                   error, runs, prevOut>>
    /\ UNCHANGED notClean

\* the duplicate diagnostics (PAR script), drop_duplicates and the sort
Dedup ==
    /\ pc = "flagged"
    /\ tracks' = SortTracks(DropDuplicates(script, tracks))
    /\ stdout' = IF script = "par"
                 THEN stdout \cup
                        {[msg |-> "duplicate groups",
                          n |-> Cardinality(DupGroups(script, tracks))],
                         [msg |-> "groups with >1 distinct wind",
                          n |-> Cardinality(WindSpreadGroups(script, tracks))]}
                 ELSE stdout
    /\ pc' = "deduped"
    /\ UNCHANGED <<script, rawFile, geoFile, tracksFile, stormsFile, dataframe,
                   ids, storms, error, runs, prevOut,
                   points>>
    /\ UNCHANGED notClean

\* the storm-level summary and the scoped wind merged into it
Aggregate ==
    /\ pc = "deduped"
    /\ storms' = AggregateStorms(script, tracks)
    /\ LET missing == Cardinality({i \in 1..Len(storms') :
                                      ScopedWind(script, storms'[i]) = NaN})
       IN  stdout' = IF script = "par" /\ missing > 0
                     THEN stdout \cup {[msg |-> "no par_max_wind", n |-> missing]}
                     ELSE stdout
    /\ pc' = "aggregated"
    /\ UNCHANGED <<script, rawFile, geoFile, tracksFile, stormsFile, dataframe,
                   ids, tracks, error, runs, prevOut,
                   points>>
    /\ UNCHANGED notClean

\* the intensity labels
Labelling ==
    /\ pc = "aggregated"
    /\ storms' = AssignLabels(script, storms)
    /\ pc' = "labelled"
    /\ UNCHANGED <<script, rawFile, geoFile, tracksFile, stormsFile, dataframe,
                   ids, tracks, error, stdout, runs, prevOut,
                   points>>
    /\ UNCHANGED notClean

\* tracks.to_csv(OUT_TRACKS_PATH)
WriteTracks ==
    /\ pc = "labelled"
    /\ tracksFile' = ToCsv(tracksFile, tracks)
    /\ pc' = "tracks_written"
    /\ UNCHANGED <<script, rawFile, geoFile, stormsFile, dataframe, ids, tracks,
                   storms, error, stdout, runs, prevOut,
                   points>>
    /\ UNCHANGED notClean

\* storms.to_csv(OUT_STORMS_PATH)
WriteStorms ==
    /\ pc = "tracks_written"
    /\ stormsFile' = ToCsv(stormsFile, storms)
    /\ pc' = "done"
    /\ UNCHANGED <<script, rawFile, geoFile, tracksFile, dataframe, ids, tracks,
                   storms, error, stdout, runs, prevOut,
                   points>>
    /\ UNCHANGED notClean

\* the script is started again by hand, on the same inputs
Rerun ==
    /\ pc = "done"
    /\ runs < MaxRuns
    /\ runs' = runs + 1
    /\ prevOut' = [tracks |-> tracksFile, storms |-> stormsFile]
    /\ pc' = "start"
    /\ dataframe' = <<>>
    /\ ids' = {}
    /\ tracks' = <<>>
    /\ storms' = <<>>
    /\ error' = ""
    /\ stdout' = {}
    /\ points' = <<>>
    /\ UNCHANGED <<script, rawFile, geoFile, tracksFile, stormsFile>>
    /\ UNCHANGED notClean

\* the raw file is removed before the script is started again
RerunRawRemoved ==
    /\ pc = "done"
    /\ runs < MaxRuns
    /\ runs' = runs + 1
    /\ prevOut' = [tracks |-> tracksFile, storms |-> stormsFile]
    /\ rawFile' = NoRawFile
    /\ pc' = "start"
    /\ dataframe' = <<>>
    /\ ids' = {}
    /\ tracks' = <<>>
    /\ storms' = <<>>
    /\ error' = ""
    /\ stdout' = {}
    /\ points' = <<>>
    /\ UNCHANGED <<script, geoFile, tracksFile, stormsFile>>
    /\ UNCHANGED notClean

NextClean ==
    \/ CheckFail
    \/ Load
    \/ Flag
    \/ Dedup
    \/ Aggregate
    \/ Labelling
    \/ WriteTracks
    \/ WriteStorms
    \/ Rerun
    \/ RerunRawRemoved

Init == InitClean /\ IdleMerge /\ IdlePoints /\ IdleDash

Next == NextClean

Spec == Init /\ [][Next]_vars

-----------------------------------------------------------------------------
(* The label assignment on its own: lines 127-137 / 180-191 applied to a     *)
(* storms table whose two wind columns range over every value, NaN included *)

WindValues == {NaN} \cup {{w} : w \in 0..MaxWind}

UnlabelledStorm(s, mw, sw) ==
    IF s = "par"
    THEN [SID |-> "A", max_wind |-> mw, par_max_wind |-> sw]
    ELSE [SID |-> "A", max_wind |-> mw, first_landfall_wind |-> sw]

InitLabel ==
    /\ script \in {"par", "landfall"}
    /\ \E mw \in WindValues, sw \in WindValues :
           storms = <<UnlabelledStorm(script, mw, sw)>>
    /\ pc = "aggregated"
    /\ rawFile = NoRawFile
    /\ geoFile = GeoPresent
    /\ tracksFile = NoFile
    /\ stormsFile = NoFile
    /\ dataframe = <<>>
    /\ ids = {}
    /\ tracks = <<>>
    /\ error = ""
    /\ stdout = {}
    /\ runs = 1
    /\ prevOut = [tracks |-> NoFile, storms |-> NoFile]
    /\ points = <<>>
    /\ IdleMerge
    /\ IdlePoints
    /\ IdleDash

SpecLabel == InitLabel /\ [][Labelling]_vars

-----------------------------------------------------------------------------
(* The aggregation on its own: lines 96-143 / 147-196 applied to a track    *)
(* table as lines 92-93 / 143-144 leave it (no duplicate key, in SID and    *)
(* ISO_TIME order) whose region flag is any boolean: the geometry quirk the *)
(* comment of PAR lines 121-122 allows for                                   *)

\* the rows with the region flag of row i replaced by f[i]
Reflag(s, rows, f) ==
    [i \in 1..Len(rows) |->
        IF s = "par" THEN [rows[i] EXCEPT !.in_par = f[i]]
        ELSE [rows[i] EXCEPT !.on_ph_land = f[i]]]

FlagRows(s, rows) ==
    IF s = "par" THEN FlagPar(rows)
    ELSE FlagLand(rows, LoadGeojsonPaths(GeoPresent).paths)

DedupedTracks(s) ==
    UNION {LET fl == FlagRows(s, LoadFiltered(s, raw))
           IN  {SortTracks(DropDuplicates(s, Reflag(s, fl, f))) :
                   f \in [1..Len(fl) -> BOOLEAN]} :
           raw \in UNION {[1..k -> BaseRows] : k \in 1..MaxAggRows}}

\* stdout holds what is printed from the aggregation on
InitAgg ==
    /\ script \in {"par", "landfall"}
    /\ tracks \in DedupedTracks(script)
    /\ dataframe = tracks
    /\ ids = {tracks[i].SID : i \in 1..Len(tracks)}
    /\ points = PointsOf(script, tracks)
    /\ pc = "deduped"
    /\ rawFile = NoRawFile
    /\ geoFile = GeoPresent
    /\ tracksFile = NoFile
    /\ stormsFile = NoFile
    /\ storms = <<>>
    /\ error = ""
    /\ stdout = {}
    /\ runs = 1
    /\ prevOut = [tracks |-> NoFile, storms |-> NoFile]
    /\ IdleMerge
    /\ IdlePoints
    /\ IdleDash

NextAgg ==
    \/ Aggregate
    \/ Labelling
    \/ WriteTracks
    \/ WriteStorms

SpecAgg == InitAgg /\ [][NextAgg]_vars

\* the cleaning scripts are not running
IdleClean ==
    /\ script = "par"
    /\ rawFile = NoRawFile
    /\ geoFile = GeoPresent
    /\ tracksFile = NoFile
    /\ stormsFile = NoFile
    /\ pc = "idle"
    /\ dataframe = <<>>
    /\ ids = {}
    /\ tracks = <<>>
    /\ storms = <<>>
    /\ error = ""
    /\ stdout = {}
    /\ runs = 0
    /\ prevOut = [tracks |-> NoFile, storms |-> NoFile]
    /\ points = <<>>

InitMergeOnly == InitMerge /\ IdleClean /\ IdlePoints /\ IdleDash

SpecMerge == InitMergeOnly /\ [][NextMerge]_vars

InitPointsOnly == InitPoints /\ IdleClean /\ IdleMerge /\ IdleDash

SpecPoints == InitPointsOnly /\ [][NextPoints]_vars

-----------------------------------------------------------------------------
(* The dashboard: the Streamlit pages and their cached loaders, over the    *)
(* processed files the scripts write                                        *)

\* a cleaning script run from start to end on the raw rows: the two tables
\* it writes
PipelineTracks(s, raw) ==
    LET fl == FlagRows(s, LoadFiltered(s, raw))
    IN  SortTracks(DropDuplicates(s, ExpandTracks(fl, RetainedIds(s, fl))))

PipelineStorms(s, raw) ==
    AssignLabels(s, AggregateStorms(s, PipelineTracks(s, raw)))

\* the raw rows of two successive runs of a cleaning script
RawVersions ==
    << <<RawRow("A", "2000-12-31", "16", "121", "TS", "70"),
         RawRow("B", "2000-12-31", "16", "121", "TS", "70")>>,
       <<RawRow("A", "2000-12-31", "16", "121", "TS", "140")>> >>

OutTracksPath(s) ==
    IF s = "par" THEN PAR_OUT_TRACKS_PATH ELSE LANDFALL_OUT_TRACKS_PATH

OutStormsPath(s) ==
    IF s = "par" THEN PAR_OUT_STORMS_PATH ELSE LANDFALL_OUT_STORMS_PATH

\* the file a path names: on a file system that ignores case the two
\* spellings data/processed/ERA5 and data/processed/era5 name one file
Canon(fold, path) ==
    IF fold /\ path = ERA5_MERGED_CSV_PATH THEN OUTPUT_CSV_PATH ELSE path

FileAt(d, fold, path) == d[Canon(fold, path)]

Pages ==
    {"app.py", "Overview.py", "1_Spatio_Temporal_Explorer.py",
     "2_Climate_Drivers.py"}

LoaderCall(file, fn, path) == [file |-> file, fn |-> fn, path |-> path]

\* the loader calls of a page script, in order
PageLoads(p) ==
    CASE p = "app.py" ->
           <<LoaderCall("app.py", "load_storms", STORMS_CSV)>>
      [] p = "Overview.py" ->
           <<LoaderCall("Overview.py", "load_csv", PAR_V3),
             LoaderCall("Overview.py", "load_csv", LANDFALL_V4)>>
      [] p = "1_Spatio_Temporal_Explorer.py" ->
           <<LoaderCall("1_Spatio_Temporal_Explorer.py", "load_storms", LANDFALL_V4),
             LoaderCall("1_Spatio_Temporal_Explorer.py", "load_tracks", TRACKS_V4)>>
      [] p = "2_Climate_Drivers.py" ->
           <<LoaderCall("2_Climate_Drivers.py", "load_era5_merged",
                        ERA5_MERGED_CSV_PATH),
             LoaderCall("2_Climate_Drivers.py", "load_csv", PAR_V3),
             LoaderCall("2_Climate_Drivers.py", "load_csv", LANDFALL_V4)>>

\* the loaders of core/data.py, with their default paths
DataLoaders ==
    {LoaderCall("core/data.py", "load_ibtracs_par_v3", PAR_V3),
     LoaderCall("core/data.py", "load_ibtracs_landfall_v4", LANDFALL_V4)}

\* the pages that wrap their loader calls in try / except Exception with
\* st.error and st.stop
Guarded(p) == p \in {"app.py", "2_Climate_Drivers.py"}

\* .astype(str).str.upper().str.strip() on a label
UpperStrip ==
    ("TD" :> "TD" @@ "TS" :> "TS" @@ "TY" :> "TY" @@ "STY" :> "STY" @@
     NaNStr :> "NAN")

\* what a loader makes of the table it read
Normalise(k, table) ==
    IF k.fn = "load_storms" /\ k.file = "app.py"
    THEN [i \in 1..Len(table) |->
            [table[i] EXCEPT !.peak_intensity = UpperStrip[@]]]
    ELSE IF k.fn = "load_storms"
    THEN [i \in 1..Len(table) |->
            [table[i] EXCEPT !.peak_intensity = IF @ = NaNStr THEN "UNK" ELSE @]]
    ELSE IF k.fn = "load_tracks"
    THEN [i \in 1..Len(table) |-> table[i] @@ ("LON_PLOT" :> table[i].LON_180)]
    ELSE IF k.fn = "load_ibtracs_par_v3"
    THEN [i \in 1..Len(table) |->
            [table[i] EXCEPT !.par_peak_intensity = UpperStrip[@]]]
    ELSE IF k.fn = "load_ibtracs_landfall_v4"
    THEN [i \in 1..Len(table) |->
            [table[i] EXCEPT !.landfall_intensity = UpperStrip[@],
                             !.peak_intensity = UpperStrip[@]]]
    ELSE table

\* Cached with the cache never hit
CachedNever(c, k) == FALSE

\* st.cache_data: the call was made before in this process and returned
Cached(c, k) == k \in DOMAIN c

\* OpenFile that creates the file when it is missing (mode "a+")
OpenFileCreating(d, fold, path) ==
    [disk |-> [d EXCEPT ![Canon(fold, path)] =
                  [exists |-> TRUE, table |-> @.table]],
     file |-> FileAt(d, fold, path)]

\* pd.read_csv(path): the file as found, the disk as it was
OpenFile(d, fold, path) == [disk |-> d, file |-> FileAt(d, fold, path)]

\* the loader calls ks made in turn with cache c on disk d, up to the first
\* that raises; acc holds the calls made, the tables returned and the calls
\* that went to the disk
RECURSIVE RunLoads(_, _, _, _, _)
RunLoads(ks, c, d, fold, acc) ==
    IF ks = <<>>
    THEN [cache |-> c, disk |-> d, err |-> "", keys |-> acc.keys,
          tables |-> acc.tables, read |-> acc.read]
    ELSE LET k == Head(ks) IN
         IF Cached(c, k)
         THEN RunLoads(Tail(ks), c, d, fold,
                       [keys |-> Append(acc.keys, k),
                        tables |-> Append(acc.tables, c[k]),
                        read |-> acc.read])
         ELSE LET o == OpenFile(d, fold, k.path) IN
              IF ~o.file.exists
              THEN [cache |-> c, disk |-> o.disk, err |-> "FileNotFoundError",
                    keys |-> acc.keys, tables |-> acc.tables,
                    read |-> acc.read \cup {k}]
              ELSE LET v == Normalise(k, o.file.table)
                   IN  RunLoads(Tail(ks),
                                [x \in DOMAIN c \cup {k} |->
                                    IF x = k THEN v ELSE c[x]],
                                o.disk, fold,
                                [keys |-> Append(acc.keys, k),
                                 tables |-> Append(acc.tables, v),
                                 read |-> acc.read \cup {k}])

\* render_overview_exposure_vs_impact: the landfall conversion rate from the
\* PAR and the landfall storms tables, kept exact as <<numerator, denominator>>
ConversionRate(par, land) ==
    LET landfall == SelectSeq(land, LAMBDA st : st.any_landfall)
        par_total == Cardinality({par[i].SID : i \in 1..Len(par)})
        land_total == Cardinality({landfall[i].SID : i \in 1..Len(landfall)})
    IN  IF par_total # 0 THEN <<land_total * 100, par_total>> ELSE <<0, 1>>

\* a tree with no processed file, but for the v2 storms file of an earlier
\* revision of the PAR script when legacy holds
InitDash ==
    /\ caseFold \in BOOLEAN
    /\ \E legacy \in BOOLEAN :
          disk = [q \in ProcessedPaths |->
                    IF legacy /\ q = STORMS_CSV
                    THEN [exists |-> TRUE,
                          table |-> PipelineStorms("par", RawVersions[1])]
                    ELSE NoFile]
    /\ cache = <<>>
    /\ view = NoView
    /\ IdleExplorer

\* a cleaning script is run by hand, to completion
RunCleaningScript ==
    /\ \E s \in {"par", "landfall"}, v \in 1..Len(RawVersions) :
          disk' = [disk EXCEPT
                     ![OutTracksPath(s)] =
                         ToCsv(@, PipelineTracks(s, RawVersions[v])),
                     ![OutStormsPath(s)] =
                         ToCsv(@, PipelineStorms(s, RawVersions[v]))]
    /\ UNCHANGED <<caseFold, cache, view>>
    /\ UNCHANGED notDash

\* the merge script is run by hand, to completion
RunMergeScript ==
    /\ disk' = [disk EXCEPT ![OUTPUT_CSV_PATH] = ToCsv(@, OldMergedFile.table)]
    /\ UNCHANGED <<caseFold, cache, view>>
    /\ UNCHANGED notDash

\* a page script runs from its first line: the page is opened, or a widget
\* of it changed
RenderPage ==
    /\ \E p \in Pages :
          LET r == RunLoads(PageLoads(p), cache, disk, caseFold,
                            [keys |-> <<>>, tables |-> <<>>, read |-> {}])
          IN  /\ cache' = r.cache
              /\ disk' = r.disk
              /\ view' = [page |-> p,
                          status |-> IF r.err = "" THEN "rendered"
                                     ELSE IF Guarded(p) THEN "error_panel"
                                     ELSE "uncaught",
                          tables |-> r.tables, keys |-> r.keys, read |-> r.read]
    /\ UNCHANGED caseFold
    /\ UNCHANGED notDash

\* the dashboard process is stopped and started again
Restart ==
    /\ cache' = <<>>
    /\ view' = NoView
    /\ UNCHANGED <<disk, caseFold>>
    /\ UNCHANGED notDash

NextDash ==
    \/ RunCleaningScript
    \/ RunMergeScript
    \/ RenderPage
    \/ Restart

InitDashOnly == InitDash /\ IdleClean /\ IdleMerge /\ IdlePoints

SpecDash == InitDashOnly /\ [][NextDash]_vars

-----------------------------------------------------------------------------
(* The spatio-temporal explorer: render_spatio_temporal_explorer on the two *)
(* tables pages/1_Spatio_Temporal_Explorer.py loaded, run again on every     *)
(* change of a sidebar widget.  philippines.geojson is present; the heat    *)
(* weight and the sampling of the heatmap points are left out.              *)

MaxExplorerRows == 3

\* storm A: on Luzon at 30 kt, then at sea at 70 kt; storm B: on Luzon at
\* 70 kt a day later, and at sea at 30 kt
ExplorerRows ==
    {RawRow("A", "2000-12-31", "16", "121", "TS", "30"),
     RawRow("A", "2001-01-01", "30", "140", "TS", "70"),
     RawRow("B", "2001-01-01", "16", "121", "TS", "70"),
     RawRow("B", "2000-12-31", "30", "140", "TS", "30")}

ExplorerTables == UNION {[1..k -> ExplorerRows] : k \in 0..MaxExplorerRows}

\* _intensity_rgba
IntensityRgba(label) ==
    CASE label = "TD" -> <<120, 120, 120, 220>>
      [] label = "TS" -> <<70, 130, 180, 220>>
      [] label = "TY" -> <<255, 165, 0, 220>>
      [] label = "STY" -> <<220, 20, 60, 230>>
      [] OTHER -> <<100, 100, 100, 200>>

\* _add_color: the v4 storms table has no par_peak_intensity column; the
\* grey ramp is int(60 + 180 * t), exact for the winds of the modelled rows
AddColor(ps, mode) ==
    IF mode = "Landfall intensity"
    THEN [i \in 1..Len(ps) |->
             ps[i] @@ ("color" :> IntensityRgba(ps[i].peak_intensity))]
    ELSE IF mode = "PAR peak intensity"
    THEN [i \in 1..Len(ps) |-> ps[i] @@ ("color" :> <<100, 100, 100, 120>>)]
    ELSE LET w == [i \in 1..Len(ps) |->
                      IF ps[i].max_wind = NaN THEN 0 ELSE Val(ps[i].max_wind)]
             w_min == SetMin(Range(w))
             top == SetMax(Range(w))
             w_max == IF top > w_min THEN top ELSE w_min + 1
             g(v) == 60 + (180 * (v - w_min)) \div (w_max - w_min)
         IN  [i \in 1..Len(ps) |->
                 ps[i] @@ ("color" :> <<g(w[i]), g(w[i]), g(w[i]), 160>>)]

\* the rows of tracks_df of the storms of storms_df, on land only if asked
\* (the first lines of _heatmap_points and of _build_paths)
SelectedTrackRows(tracks_df, storms_df, land_only_flag) ==
    SelectSeq(tracks_df,
              LAMBDA r : /\ r.SID \in {storms_df[i].SID : i \in 1..Len(storms_df)}
                         /\ land_only_flag => r.on_ph_land)

\* _build_paths: one path per storm, in (SID, ISO_TIME) order, with the
\* tooltip columns of the storm; paths of fewer than 2 points are dropped
BuildPaths(tracks_df, storms_df, land_only_flag) ==
    LET t == SortTracks(SelectedTrackRows(tracks_df, storms_df, land_only_flag))
        keys == SortedKeys({GroupKey(r) : r \in Range(t)})
        StormOf(sid) == storms_df[CHOOSE i \in 1..Len(storms_df) :
                                     storms_df[i].SID = sid]
        PathOf(k) ==
            LET g == GroupRows(t, k)
                s == StormOf(g[1].SID)
            IN  [SID |-> s.SID,
                 path |-> [i \in 1..Len(g) |-> <<g[i].LON_PLOT, g[i].LAT>>],
                 start_year |-> s.start_year,
                 peak_intensity |-> s.peak_intensity,
                 max_wind |-> s.max_wind,
                 n_track_points |-> s.n_track_points]
    IN  SelectSeq([i \in 1..Len(keys) |-> PathOf(keys[i])],
                  LAMBDA q : Len(q.path) >= 2)

\* _heatmap_points: the selected rows, cut down to four columns
HeatmapPoints(tracks_df, storms_df, land_only_flag) ==
    LET t == SelectedTrackRows(tracks_df, storms_df, land_only_flag)
    IN  [i \in 1..Len(t) |->
            [SID |-> t[i].SID, LAT |-> t[i].LAT, LON_PLOT |-> t[i].LON_PLOT,
             USA_WIND |-> t[i].USA_WIND]]

\* the classes the multiselect offers (lines 141-143)
IntensityOpts(storms_df) ==
    LET present == {storms_df[i].peak_intensity : i \in 1..Len(storms_df)}
        base == {"TD", "TS", "TY", "STY"}
    IN  IF base \cap present # {} THEN base \cap present ELSE present

StartYears(storms_df) == {storms_df[i].start_year : i \in 1..Len(storms_df)}

MapModes == {"Landfall points", "Heatmap", "Tracks (selected only)"}

ColorModes == {"Landfall intensity", "Max wind (kt)", "PAR peak intensity"}

\* the widgets as the first run of the script leaves them
DefaultSidebar(storms_df) ==
    [year_min |-> SetMin(StartYears(storms_df)),
     year_max |-> SetMax(StartYears(storms_df)),
     intensities |-> IntensityOpts(storms_df),
     map_mode |-> "Heatmap",
     color_mode |-> "Landfall intensity",
     land_only |-> FALSE]

\* every setting the user can give the widgets; the track colour can be
\* chosen in the tracks mode only
SidebarChoices(storms_df) ==
    LET y == SetMin(StartYears(storms_df))..SetMax(StartYears(storms_df))
    IN  {sb \in [year_min : y, year_max : y,
                 intensities : SUBSET IntensityOpts(storms_df),
                 map_mode : MapModes, color_mode : ColorModes,
                 land_only : BOOLEAN] :
            /\ sb.year_min <= sb.year_max
            /\ sb.map_mode # "Tracks (selected only)"
                  => sb.color_mode = "Landfall intensity"}

\* storms_f (lines 193-196)
StormsF(storms_df, sb) ==
    SelectSeq(storms_df,
              LAMBDA s : /\ sb.year_min <= s.start_year
                         /\ s.start_year <= sb.year_max
                         /\ s.peak_intensity \in sb.intensities)

\* render_spatio_temporal_explorer from the storm filter on (lines 192-242):
\* what the run leaves on the page.  Every storm of storms_f has a row in
\* tracks_df and an on-land row, so _build_paths never groups an empty table.
RenderSpatioTemporalExplorer(storms_df, tracks_df, sb) ==
    LET storms_f == StormsF(storms_df, sb)
        pts == HeatmapPoints(tracks_df, storms_f, sb.land_only)
        built == BuildPaths(tracks_df, storms_f, sb.land_only)
        Stopped == [status |-> "stopped", storms_f |-> storms_f,
                    pts |-> <<>>, paths |-> <<>>]
    IN  IF storms_f = <<>> THEN Stopped
        ELSE IF sb.map_mode = "Heatmap"
        THEN IF pts = <<>> THEN Stopped
             ELSE [status |-> "rendered", storms_f |-> storms_f, pts |-> pts,
                   paths |-> AddColor(built, sb.color_mode)]
        ELSE IF sb.map_mode = "Tracks (selected only)"
        THEN IF built = <<>> THEN Stopped
             ELSE [status |-> "rendered", storms_f |-> storms_f, pts |-> <<>>,
                   paths |-> AddColor(built, sb.color_mode)]
        ELSE Stopped

ExplorerPage == "1_Spatio_Temporal_Explorer.py"

\* the landfall script has run on a raw file and the page script has made
\* its two loader calls
InitExplorer ==
    /\ \E raw \in ExplorerTables :
          LET d == [q \in ProcessedPaths |->
                      IF q = LANDFALL_V4
                      THEN ToCsv(NoFile, PipelineStorms("landfall", raw))
                      ELSE IF q = TRACKS_V4
                      THEN ToCsv(NoFile, PipelineTracks("landfall", raw))
                      ELSE NoFile]
              r == RunLoads(PageLoads(ExplorerPage), <<>>, d, FALSE,
                            [keys |-> <<>>, tables |-> <<>>, read |-> {}])
          IN  /\ disk = r.disk
              /\ cache = r.cache
              /\ view = [page |-> ExplorerPage, status |-> "rendered",
                         tables |-> r.tables, keys |-> r.keys,
                         read |-> r.read]
    /\ caseFold = FALSE
    /\ IdleExplorer
    /\ IdleClean
    /\ IdleMerge
    /\ IdlePoints

\* the first run of the page: int() of the minimum of an empty start_year
\* column raises ValueError (line 134); what st.slider does with equal
\* bounds depends on the Streamlit release, so both outcomes are taken
OpenExplorer ==
    /\ shown = NoShown
    /\ LET storms_df == view.tables[1]
           tracks_df == view.tables[2]
       IN  IF storms_df = <<>>
           THEN /\ shown' = [NoShown EXCEPT !.status = "uncaught"]
                /\ UNCHANGED sidebar
           ELSE \E sliderRaises \in BOOLEAN :
                   IF /\ sliderRaises
                      /\ Cardinality(StartYears(storms_df)) = 1
                   THEN /\ shown' = [NoShown EXCEPT !.status = "uncaught"]
                        /\ UNCHANGED sidebar
                   ELSE /\ sidebar' = DefaultSidebar(storms_df)
                        /\ shown' = RenderSpatioTemporalExplorer(
                                        storms_df, tracks_df, sidebar')
    /\ UNCHANGED notExplorer

\* the user changes a sidebar widget and the script runs again; the two
\* tables come from the cache
ChangeWidget ==
    /\ shown.status \in {"rendered", "stopped"}
    /\ \E sb \in SidebarChoices(view.tables[1]) :
          /\ sidebar' = sb
          /\ shown' = RenderSpatioTemporalExplorer(view.tables[1],
                                                   view.tables[2], sb)
    /\ UNCHANGED notExplorer

NextExplorer == OpenExplorer \/ ChangeWidget

SpecExplorer == InitExplorer /\ [][NextExplorer]_vars

-----------------------------------------------------------------------------
(* A run over the outputs of an earlier run on another raw file, which may   *)
(* be stopped at any point (the scripts have no try / finally, temporary    *)
(* file or lock around lines 141-143 / 194-196)                              *)

MaxRewriteRows == 2

\* storms A and B, each on Luzon and outside the PAR
RewriteRows ==
    {RawRow("A", "2000-12-31", "16", "121", "TS", "70"),
     RawRow("A", "2001-01-01", "30", "140", "TS", "70"),
     RawRow("B", "2000-12-31", "16", "121", "TS", "70"),
     RawRow("B", "2000-12-31", "30", "140", "TS", "30")}

RewriteTables == UNION {[1..k -> RewriteRows] : k \in 0..MaxRewriteRows}

InitRewrite ==
    /\ script \in {"par", "landfall"}
    /\ geoFile = GeoPresent
    /\ \E old \in RewriteTables, new \in RewriteTables :
          /\ rawFile = [exists |-> TRUE, header |-> FullHeader, rows |-> new]
          /\ tracksFile = ToCsv(NoFile, PipelineTracks(script, old))
          /\ stormsFile = ToCsv(NoFile, PipelineStorms(script, old))
    /\ prevOut = [tracks |-> tracksFile, storms |-> stormsFile]
    /\ pc = "start"
    /\ dataframe = <<>>
    /\ ids = {}
    /\ tracks = <<>>
    /\ storms = <<>>
    /\ error = ""
    /\ stdout = {}
    /\ runs = 2
    /\ points = <<>>
    /\ IdleMerge
    /\ IdlePoints
    /\ IdleDash

\* where a stopped run was
InterruptedAt ==
    ("start" :> "stopped before tracks" @@ "loaded" :> "stopped before tracks" @@
     "flagged" :> "stopped before tracks" @@ "deduped" :> "stopped before tracks" @@
     "aggregated" :> "stopped before tracks" @@
     "labelled" :> "stopped before tracks" @@
     "tracks_written" :> "stopped between the writes")

\* the process is stopped (killed, interrupted, out of disk space on the
\* next write): nothing is undone
Interrupt ==
    /\ pc \in DOMAIN InterruptedAt
    /\ pc' = InterruptedAt[pc]
    /\ error' = "stopped"
    /\ UNCHANGED <<script, rawFile, geoFile, tracksFile, stormsFile, dataframe,
                   ids, tracks, storms, stdout, runs, prevOut, points>>
    /\ UNCHANGED notClean

NextRewrite ==
    \/ Load
    \/ Flag
    \/ Dedup
    \/ Aggregate
    \/ Labelling
    \/ WriteTracks
    \/ WriteStorms
    \/ Interrupt

SpecRewrite == InitRewrite /\ [][NextRewrite]_vars

-----------------------------------------------------------------------------
(* Claims *)

ClassRank == ("TD" :> 0 @@ "TS" :> 1 @@ "TY" :> 2 @@ "STY" :> 3)

\* the class the documentation gives a wind of w knots
DocumentedClass(w) ==
    IF w < 34 THEN "TD"
    ELSE IF w < 64 THEN "TS"
    ELSE IF w < 130 THEN "TY"
    ELSE "STY"

\* C1: once the labels are assigned, every storm's peak_intensity is TD for
\* max_wind < 34, TS for 34 <= max_wind < 64, TY for 64 <= max_wind < 130 and
\* STY for max_wind >= 130, in both scripts; and of two winds labelled by the
\* script, the smaller never gets the higher class.
C1_LabelByThresholds ==
    pc = "labelled" =>
        \A i \in 1..Len(storms) :
            /\ \A w \in storms[i].max_wind :
                   storms[i].peak_intensity = DocumentedClass(w)
            /\ \A w \in storms[i].max_wind, v \in ScopedWind(script, storms[i]) :
                   v <= w => ClassRank[ScopedLabel(script, storms[i])]
                               <= ClassRank[storms[i].peak_intensity]

\* a storm labelled exactly at the last breakpoint, with a scoped wind just
\* below it
C1_Witness ==
    /\ pc = "labelled"
    /\ storms[1].max_wind = {130}
    /\ storms[1].peak_intensity = "STY"
    /\ ScopedWind(script, storms[1]) = {129}
    /\ ScopedLabel(script, storms[1]) = "TY"

Sids(rows) == {r.SID : r \in Range(rows)}

\* C3: when a run has completed, the storms CSV and the tracks CSV hold the
\* same set of SIDs, and every SID of the tracks CSV has exactly one row in
\* the storms CSV.
C3_SameSids ==
    pc = "done" =>
        /\ Sids(stormsFile.table) = Sids(tracksFile.table)
        /\ \A sid \in Sids(tracksFile.table) :
               Cardinality({i \in 1..Len(stormsFile.table) :
                               stormsFile.table[i].SID = sid}) = 1

\* a completed run that retained both storms, one of them over two years
C3_Witness ==
    /\ pc = "done"
    /\ Sids(tracksFile.table) = {"A", "B"}
    /\ \E r \in Range(tracksFile.table) : r.year = 2001
    /\ Len(stormsFile.table) = 2

\* the (SID, ISO_TIME, LAT, LON) of a detail row
DetailKey(r) == <<r.SID, r.ISO_TIME, r.LAT, r.LON>>

\* the same with the position in the convention the script tests it in
PlaceKey(s, r) ==
    <<r.SID, r.ISO_TIME, r.LAT, IF s = "par" THEN r.LON ELSE r.LON_180>>

NoSharedKey(rows) ==
    \A i, j \in 1..Len(rows) : i # j => DetailKey(rows[i]) # DetailKey(rows[j])

\* every (time, place) of the retained storms' filtered rows has one detail row
OneRowPerPlace(s, df, sids, rows) ==
    \A r \in {q \in Range(df) : q.SID \in sids} :
        Cardinality({i \in 1..Len(rows) :
                        PlaceKey(s, rows[i]) = PlaceKey(s, r)}) = 1

\* the scenario of C4 in the PAR script: three filtered rows of one storm,
\* rows i < j equal in (SID, ISO_TIME, LAT, LON) with different winds, and a
\* third row k inside the PAR with wind 70
Scenario(i, j, k) ==
    /\ script = "par"
    /\ Len(rawFile.rows) = 3
    /\ Len(dataframe) = 3
    /\ {i, j, k} = {1, 2, 3}
    /\ i < j
    /\ DetailKey(dataframe[i]) = DetailKey(dataframe[j])
    /\ dataframe[i].USA_WIND # dataframe[j].USA_WIND
    /\ DetailKey(dataframe[k]) # DetailKey(dataframe[i])
    /\ dataframe[k].SID = dataframe[i].SID
    /\ dataframe[k].in_par
    /\ dataframe[k].USA_WIND = 70

DedupHolds ==
    /\ pc \in {"deduped", "aggregated", "labelled", "tracks_written", "done"} =>
           /\ NoSharedKey(tracks)
           /\ OneRowPerPlace(script, dataframe, ids, tracks)
    /\ pc = "done" => tracksFile.table = tracks

C5_RerunSameOutput ==
    (pc = "done" /\ runs >= 2) =>
        /\ tracksFile = prevOut.tracks
        /\ stormsFile = prevOut.storms

\* a second completed run over non-empty outputs
C5_Witness ==
    /\ pc = "done"
    /\ runs = 2
    /\ Len(tracksFile.table) = 3
    /\ Len(stormsFile.table) = 2

\* the filtered rows of the PAR script with the NATURE filter left out
UnrestrictedPar(rows) == FlagPar(YearFilter(WithYear(DropNa(Coerce(rows)))))

\* C6: the storms the PAR script retains (NATURE filter applied before the
\* spatial test) are among those the same pass retains without the filter.
C6_FilterMonotone ==
    (script = "par" /\ pc \in {"flagged", "deduped", "aggregated", "labelled",
                               "tracks_written", "done"}) =>
        ids \subseteq RetainedIds("par", UnrestrictedPar(rawFile.rows))

\* a run in which the filter costs storm A, non-tropical inside the PAR, its
\* place among the retained storms
C6_Witness ==
    /\ script = "par"
    /\ pc = "flagged"
    /\ ids = {"B"}
    /\ Len(dataframe) < Len(UnrestrictedPar(rawFile.rows))
    /\ RetainedIds("par", UnrestrictedPar(rawFile.rows)) = {"A", "B"}

\* the inputs on which the script must stop at once
FatalInput ==
    \/ ~rawFile.exists
    \/ \E c \in {"SID", "ISO_TIME", "LAT", "LON", "NATURE", "USA_WIND"} :
           c \notin rawFile.header
    \/ script = "landfall" /\ ~geoFile.exists

\* C10: on such an input the script never gets past its checks: no row is
\* read, both output files stay as the run found them, the run ends with an
\* exception, and a run that has ended so is not taken up again.
C10_FailFast ==
    /\ [](FatalInput =>
            /\ pc \in {"start", "failed"}
            /\ dataframe = <<>>
            /\ tracksFile = prevOut.tracks
            /\ stormsFile = prevOut.storms
            /\ pc = "failed" =>
                  error \in {"FileNotFoundError", "KeyError"})
    /\ [][pc = "failed" => pc' = "failed"]_vars

\* a run that failed over the outputs of an earlier run, and left them
C10_Witness ==
    /\ pc = "failed"
    /\ error = "FileNotFoundError"
    /\ tracksFile.exists
    /\ Len(tracksFile.table) = 3
    /\ stormsFile.exists

\* the years a document has a value for
DocYears(d) == {DateKeyYear[k] : k \in Range(d.keys)}

CommonYears == DocYears(docs[1]) \cap DocYears(docs[2]) \cap DocYears(docs[3])

\* the value of column c in a row of year y comes from a series of that name
\* (after the renaming) of some document, at a key of year y
FromSeries(c, y, value) ==
    \E i \in 1..Len(docs) : \E v \in Range(docs[i].vars), k \in Range(docs[i].keys) :
        /\ Rename(v) = c
        /\ DateKeyYear[k] = y
        /\ value = <<v, k>>

\* C7: the merged climate table that is written holds exactly the years that
\* occur in all three input documents, its rows are in ascending year order,
\* its columns are exactly year, cdd, r50mm, r95ptot, cwd, rx1day, rx5day,
\* pr, prpercent, r20mm in this order, and every value comes from the series
\* and year of its cell.
C7_InnerJoinSortedOrdered ==
    mpc = "written" =>
        LET out == outFile.table IN
        /\ outFile.exists
        /\ {out.rows[i].year : i \in 1..Len(out.rows)} = CommonYears
        /\ \A i, j \in 1..Len(out.rows) :
               i < j => out.rows[i].year <= out.rows[j].year
        /\ out.columns = <<"year", "cdd", "r50mm", "r95ptot", "cwd", "rx1day",
                           "rx5day", "pr", "prpercent", "r20mm">>
        /\ \A i \in 1..Len(out.rows) :
               /\ DOMAIN out.rows[i].cells = Range(out.columns) \ {"year"}
               /\ \A c \in DOMAIN out.rows[i].cells :
                      FromSeries(c, out.rows[i].year, out.rows[i].cells[c])

\* documents covering 2000-2002 (listed out of order), 2001-2002 and
\* 2000-2002 give exactly the years 2001 and 2002
C7_Witness ==
    /\ mpc = "written"
    /\ docs[1].keys = <<"2002-07", "2000-07", "2001-07">>
    /\ docs[2].keys = <<"2001-07", "2002-07">>
    /\ docs[3].keys = <<"2000-07", "2001-07", "2002-07">>
    /\ Len(outFile.table.rows) = 2
    /\ outFile.table.rows[1].year = 2001
    /\ outFile.table.rows[2].year = 2002

\* the declared columns the joined table lacks
AbsentDeclared(columns) ==
    {c \in Range(COLUMN_ORDER) : c \notin Range(columns)}

\* C8: when a column named in COLUMN_ORDER is absent after the join, the
\* merge script's next step raises KeyError naming exactly the missing
\* columns and leaves the output file as it was; the output file changes
\* only to a table with all declared columns; after the failure nothing more
\* happens to it.
C8_MissingColumnFails ==
    /\ [][(mpc = "merged" /\ AbsentDeclared(merged.columns) # {}) =>
             /\ mpc' = "failed"
             /\ merror'.type = "KeyError"
             /\ Range(merror'.cols) = AbsentDeclared(merged.columns)
             /\ outFile' = outFile]_vars
    /\ [][outFile' # outFile =>
             /\ outFile'.exists
             /\ Len(outFile'.table.columns) = Len(COLUMN_ORDER)
             /\ Range(outFile'.table.columns) = Range(COLUMN_ORDER)]_vars
    /\ [][mpc = "failed" => (mpc' = "failed" /\ outFile' = outFile)]_vars

\* the third document lacks r20mm and an earlier output exists: the script
\* failed with KeyError naming r20mm and the earlier output is still there
C8_Witness ==
    /\ mpc = "failed"
    /\ merror = [type |-> "KeyError", cols |-> <<"r20mm">>]
    /\ outFile = OldMergedFile

\* C9: the merged climate table that is written has no year in two rows,
\* also when a document has two months of the same year among its keys.
C9_OneRowPerYear ==
    mpc = "written" =>
        \A i, j \in 1..Len(outFile.table.rows) :
            i # j => outFile.table.rows[i].year # outFile.table.rows[j].year

\* the warning of lines 70-71 (PAR) / 136-137 (landfall)
EmptyWarning == [msg |-> "no storms", n |-> 0]

\* C11: when no storm is retained the script has printed the warning, has
\* not raised, can always take its next step until it is done, and when it
\* is done both output files exist and hold no data row.
C11_EmptyResultWritesEmptyFiles ==
    (ids = {} /\ pc \in {"flagged", "deduped", "aggregated", "labelled",
                        "tracks_written", "done"}) =>
        /\ EmptyWarning \in stdout
        /\ error = ""
        /\ pc # "done" => ENABLED (Dedup \/ Aggregate \/ Labelling
                                   \/ WriteTracks \/ WriteStorms)
        /\ pc = "done" =>
               /\ tracksFile = [exists |-> TRUE, table |-> <<>>]
               /\ stormsFile = [exists |-> TRUE, table |-> <<>>]

\* the landfall script on rows that pass the filters but never touch land
C11_Witness ==
    /\ script = "landfall"
    /\ pc = "done"
    /\ runs = 1
    /\ dataframe # <<>>
    /\ ids = {}
    /\ EmptyWarning \in stdout
    /\ tracksFile = [exists |-> TRUE, table |-> <<>>]
    /\ stormsFile = [exists |-> TRUE, table |-> <<>>]

\* the storms of a track table that have no row in the region
NoRegionRow(s, trk) ==
    {trk[i].SID : i \in 1..Len(trk)}
    \ {trk[i].SID : i \in {j \in 1..Len(trk) : InRegion(s, trk[j])}}

C13_PointsInAnyPolygon ==
    /\ [](ppc = "returned" =>
            /\ Len(hit) = Len(lons)
            /\ \A i \in 1..Len(hit) :
                   hit[i] <=> \E k \in 1..Len(paths) :
                                  ContainsPoint(paths[k], lons[i], lats[i])
            /\ paths = <<>> => \A i \in 1..Len(hit) : ~hit[i])
    /\ [][ppc = "start" =>
             (lons' = lons /\ lats' = lats /\ paths' = paths)]_vars

\* three points against the two islands: the first is on the second island,
\* the second on neither, the third on the first island
C13_Witness ==
    /\ ppc = "returned"
    /\ paths = <<LandRings[1][1], LandRings[2][1]>>
    /\ lons = <<125, 130, 121>>
    /\ lats = <<7, 10, 16>>
    /\ hit = <<TRUE, FALSE, TRUE>>

\* C14: the PAR containment test gives true for the point lon 125, lat 15
\* and false for every point outside the box lon 115..135, lat 5..25.
C14_ParInteriorAndFarPoints ==
    ppc = "returned_par" =>
        \A i \in 1..Len(hit) :
            /\ (lons[i] = 125 /\ lats[i] = 15) => hit[i]
            /\ (lons[i] \notin 115..135 \/ lats[i] \notin 5..25) => ~hit[i]

\* the reference location and the point on the opposite side of the globe
C14_Witness ==
    /\ ppc = "returned_par"
    /\ lons = <<125, -55>>
    /\ lats = <<15, -15>>
    /\ hit = <<TRUE, FALSE>>

\* C15: once the spatial test has run, every longitude it was run on is the
\* row's longitude wrapped into -180..180.
C15_LongitudeNormalised ==
    pc \in {"flagged", "deduped", "aggregated", "labelled", "tracks_written",
            "done"} =>
        /\ Len(points) = Len(dataframe)
        /\ \A i \in 1..Len(points) :
               /\ points[i][1] \in -180..180
               /\ points[i][1] = IF dataframe[i].LON > 180
                                 THEN dataframe[i].LON - 360
                                 ELSE dataframe[i].LON

\* C16: every point the spatial test is run on and every row of a written
\* tracks CSV has a latitude between -90 and 90.
C16_LatitudeInRange ==
    /\ \A i \in 1..Len(points) : points[i][2] \in -90..90
    /\ \A i \in 1..Len(tracksFile.table) : tracksFile.table[i].LAT \in -90..90

\* C17: a loader call whose result is in the cache keeps its cached table
\* for as long as the dashboard process runs: a page that makes the call
\* again is handed that table and the file is not read, whatever a script
\* wrote to the file in between; only a restart empties the cache.
C17_CachedLoadServed ==
    [][\A k \in DOMAIN cache :
          \/ Restart
          \/ /\ k \in DOMAIN cache'
             /\ cache'[k] = cache[k]
             /\ RenderPage =>
                   /\ k \notin view'.read
                   /\ \A i \in 1..Len(view'.keys) :
                          view'.keys[i] = k => view'.tables[i] = cache[k]]_vars

\* a rendered page shows, from the cache, a table that is no longer what the
\* file on disk holds
C17_Witness ==
    /\ view.status = "rendered"
    /\ \E i \in 1..Len(view.keys) :
          LET k == view.keys[i] IN
          /\ k \notin view.read
          /\ FileAt(disk, caseFold, k.path).exists
          /\ view.tables[i] #
                 Normalise(k, FileAt(disk, caseFold, k.path).table)

\* C18: no step of the dashboard (a page run, a restart) creates, changes or
\* removes a processed file.
C18_DashboardReadOnly ==
    [][(RenderPage \/ Restart) => disk' = disk]_vars

\* a page run that read two files from the disk and met a missing file on
\* no call
C18_Witness ==
    /\ view.status = "rendered"
    /\ Cardinality(view.read) = 2
    /\ \E q \in ProcessedPaths : ~disk[q].exists

\* C19: no page run ends with a loader's exception leaving the page script
\* uncaught.
C19_LoadFailureCaught == view.status # "uncaught"

\* the paths the three scripts write
ScriptOutputs ==
    {PAR_OUT_TRACKS_PATH, PAR_OUT_STORMS_PATH, LANDFALL_OUT_TRACKS_PATH,
     LANDFALL_OUT_STORMS_PATH, OUTPUT_CSV_PATH}

\* every loader call of the dashboard
AllLoaderCalls ==
    DataLoaders \cup
    UNION {{PageLoads(p)[i] : i \in 1..Len(PageLoads(p))} : p \in Pages}

\* C20: once every script has run on a tree that held no processed file,
\* every loader's path is one a script writes and the loader finds a file
\* there.
C20_LoadersFindScriptOutputs ==
    (\A q \in ProcessedPaths : disk[q].exists <=> q \in ScriptOutputs) =>
        \A k \in AllLoaderCalls :
            /\ Canon(caseFold, k.path) \in ScriptOutputs
            /\ FileAt(disk, caseFold, k.path).exists

\* the raw row c, coerced, passes every row-level filter of script s
PassesFilters(s, c) ==
    /\ c.SID # NaNStr
    /\ c.ISO_TIME # NaN
    /\ c.LAT # NaN
    /\ c.LON # NaN
    /\ c.USA_WIND # NaN
    /\ \A t \in c.ISO_TIME : Year(t) \in START_YEAR..END_YEAR
    /\ s = "par" => c.NATURE \in {"TD", "TS", "TY"}

\* the detail row r holds the values of the coerced raw row c
RowOf(r, c) ==
    /\ r.SID = c.SID
    /\ {r.ISO_TIME} = c.ISO_TIME
    /\ {r.LAT} = c.LAT
    /\ {r.LON} = c.LON
    /\ {r.USA_WIND} = c.USA_WIND
    /\ r.NATURE = c.NATURE

\* C21: every row of a written tracks CSV is a raw row that passes all the
\* row-level filters of its script (nothing missing among SID, ISO_TIME, LAT,
\* LON, USA_WIND; year in 1950..2023; in the PAR script NATURE in TD, TS,
\* TY), and every retained storm has such a row inside the region: a row the
\* filters drop retains no storm.
C21_RowFiltersBeforeSpatialTest ==
    LET raw == Coerce(rawFile.rows)
        ok == {j \in 1..Len(raw) : PassesFilters(script, raw[j])}
    IN  /\ (tracksFile.exists /\ rawFile.exists) =>
              \A i \in 1..Len(tracksFile.table) :
                  /\ tracksFile.table[i].year \in START_YEAR..END_YEAR
                  /\ \E j \in ok : RowOf(tracksFile.table[i], raw[j])
        /\ pc \in {"flagged", "deduped", "aggregated", "labelled",
                   "tracks_written", "done"} =>
              \A sid \in ids :
                  \E j \in ok, i \in 1..Len(dataframe) :
                      /\ raw[j].SID = sid
                      /\ RowOf(dataframe[i], raw[j])
                      /\ InRegion(script, dataframe[i])

\* a completed PAR run on a raw file of three rows, one of them dropped by a
\* filter although it lies on land: a one-row tracks CSV
C21_Witness ==
    /\ script = "par"
    /\ pc = "done"
    /\ Len(rawFile.rows) = 3
    /\ \E j \in 1..3 :
          /\ rawFile.rows[j] \in OddRows
          /\ rawFile.rows[j].LAT = "16"
          /\ rawFile.rows[j].LON = "121"
          /\ rawFile.rows[j].SID = "A"
    /\ ids = {"B"}
    /\ Len(tracksFile.table) = 1

\* C22: the tracks CSV of a completed run holds, one row per (SID, ISO_TIME,
\* LAT, LON), every filtered row of every storm that has a filtered row
\* inside the region, its rows outside the region included, and no row of
\* any other storm.
C22_FullTracksOfRetainedStorms ==
    pc = "done" =>
        LET inside == {dataframe[i].SID :
                          i \in {j \in 1..Len(dataframe) :
                                    InRegion(script, dataframe[j])}}
        IN  {PlaceKey(script, r) : r \in Range(tracksFile.table)}
              = {PlaceKey(script, r) :
                    r \in {q \in Range(dataframe) : q.SID \in inside}}

\* storm A kept with a row inside and a row outside the region, storm B,
\* never inside, left out
C22_Witness ==
    /\ pc = "done"
    /\ Sids(dataframe) = {"A", "B"}
    /\ Sids(tracksFile.table) = {"A"}
    /\ \E r \in Range(tracksFile.table) : InRegion(script, r)
    /\ \E r \in Range(tracksFile.table) : ~InRegion(script, r)

\* the winds of the rows of a table that belong to storm sid and satisfy the
\* flag test given by inRegionOnly
WindsOf(s, rows, sid, inRegionOnly) ==
    {r.USA_WIND : r \in {q \in Range(rows) :
                            /\ q.SID = sid
                            /\ inRegionOnly => InRegion(s, q)}}

\* the (SID, time, place) groups of the filtered rows of the retained storms
\* that hold more than one wind
SpreadPlaces(s, df, sids) ==
    {k \in {PlaceKey(s, r) : r \in {q \in Range(df) : q.SID \in sids}} :
        Cardinality({r.USA_WIND : r \in {q \in Range(df) :
                                            PlaceKey(s, q) = k}}) > 1}

\* C23: when filtered rows of a storm share (SID, ISO_TIME, LAT, LON) and
\* differ in wind, the PAR script prints the number of such groups and does
\* nothing else about them; the row kept is the one that comes first in the
\* order of the raw file, whatever its wind; max_wind and par_max_wind are
\* the maxima over the rows of the tracks CSV.
C23_FirstDuplicateKept ==
    pc = "done" =>
        /\ script = "par" =>
              [msg |-> "groups with >1 distinct wind",
               n |-> Cardinality(SpreadPlaces(script, dataframe, ids))] \in stdout
        /\ \A t \in Range(tracksFile.table) :
              LET same == {i \in 1..Len(dataframe) :
                              PlaceKey(script, dataframe[i]) = PlaceKey(script, t)}
              IN  /\ same # {}
                  /\ t.USA_WIND = dataframe[SetMin(same)].USA_WIND
        /\ \A i \in 1..Len(stormsFile.table) :
              LET st == stormsFile.table[i]
                  all == WindsOf(script, tracksFile.table, st.SID, FALSE)
                  scoped == WindsOf(script, tracksFile.table, st.SID, TRUE)
              IN  /\ all # {}
                  /\ st.max_wind = {SetMax(all)}
                  /\ script = "par" =>
                        st.par_max_wind =
                            IF scoped = {} THEN NaN ELSE {SetMax(scoped)}

\* a completed PAR run in which the first of two such rows has the lower
\* wind: the storm's max_wind is below the highest wind of its filtered rows
C23_Witness ==
    /\ script = "par"
    /\ pc = "done"
    /\ SpreadPlaces(script, dataframe, ids) # {}
    /\ \E i \in 1..Len(stormsFile.table) :
          \E w \in stormsFile.table[i].max_wind :
              w < SetMax(WindsOf(script, dataframe, stormsFile.table[i].SID, FALSE))

\* the storms row st has its scoped columns filled
ScopedPresent(s, st) ==
    IF s = "par" THEN st.par_max_wind # NaN
    ELSE /\ st.any_landfall
         /\ st.first_landfall_time # NaN
         /\ st.first_landfall_wind # NaN

\* C24: de-duplication leaves every retained storm a row inside the region;
\* so every storm of the storms table, and of the storms CSV, has its scoped
\* columns filled (par_max_wind; any_landfall true, first_landfall_time and
\* first_landfall_wind), and the PAR script never prints the warning about
\* storms without par_max_wind.
C24_ScopedColumnsPresent ==
    /\ pc \in {"deduped", "aggregated", "labelled", "tracks_written", "done"} =>
          \A sid \in ids :
              \E r \in Range(tracks) : r.SID = sid /\ InRegion(script, r)
    /\ pc \in {"aggregated", "labelled", "tracks_written", "done"} =>
          /\ \A i \in 1..Len(storms) :
                /\ ScopedPresent(script, storms[i])
                /\ \E r \in Range(tracks) :
                      r.SID = storms[i].SID /\ InRegion(script, r)
          /\ \A m \in stdout : m.msg # "no par_max_wind"
    /\ \A i \in 1..Len(stormsFile.table) :
          ScopedPresent(script, stormsFile.table[i])

\* a completed run in which de-duplication removed a row inside the region
\* of a storm that has one such place only
C24_Witness ==
    /\ pc = "done"
    /\ Len(stormsFile.table) = 1
    /\ Cardinality({i \in 1..Len(dataframe) : InRegion(script, dataframe[i])}) = 2
    /\ Cardinality({i \in 1..Len(tracksFile.table) :
                       InRegion(script, tracksFile.table[i])}) = 1
    /\ Len(tracksFile.table) = 2

\* C27: in the storms table and in the storms CSV, a storm's scoped wind
\* (par_max_wind, first_landfall_wind) is never above its max_wind, and its
\* scoped label (par_peak_intensity, landfall_intensity) is never a higher
\* class than its peak_intensity in the order TD < TS < TY < STY.
C27_ScopedNeverAboveLifetime ==
    /\ pc \in {"aggregated", "labelled", "tracks_written", "done"} =>
          \A i \in 1..Len(storms) :
              \A v \in ScopedWind(script, storms[i]), w \in storms[i].max_wind :
                  v <= w
    /\ pc \in {"labelled", "tracks_written", "done"} =>
          \A i \in 1..Len(storms) :
              ClassRank[ScopedLabel(script, storms[i])]
                  <= ClassRank[storms[i].peak_intensity]
    /\ \A i \in 1..Len(stormsFile.table) :
          LET st == stormsFile.table[i] IN
          /\ \A v \in ScopedWind(script, st), w \in st.max_wind : v <= w
          /\ ClassRank[ScopedLabel(script, st)] <= ClassRank[st.peak_intensity]

\* a written storm that is a typhoon over its lifetime and a depression
\* inside the region
C27_Witness ==
    /\ pc = "done"
    /\ \E i \in 1..Len(stormsFile.table) :
          /\ stormsFile.table[i].max_wind = {70}
          /\ ScopedWind(script, stormsFile.table[i]) = {30}
          /\ stormsFile.table[i].peak_intensity = "TY"
          /\ ScopedLabel(script, stormsFile.table[i]) = "TD"

\* C29: when a run has completed, each storm's n_track_points is the number
\* of rows of the tracks CSV with its SID, and the n_track_points of all
\* storms add up to the number of rows of the tracks CSV.
C29_TrackPointCounts ==
    pc = "done" =>
        /\ \A i \in 1..Len(stormsFile.table) :
              stormsFile.table[i].n_track_points =
                  Cardinality({j \in 1..Len(tracksFile.table) :
                                  tracksFile.table[j].SID = stormsFile.table[i].SID})
        /\ SeqSum([i \in 1..Len(stormsFile.table) |->
                      stormsFile.table[i].n_track_points])
              = Len(tracksFile.table)

\* two storms written, one with two rows at one time in two places, the
\* other with one row
C29_Witness ==
    /\ pc = "done"
    /\ Len(tracksFile.table) = 3
    /\ Len(stormsFile.table) = 2
    /\ stormsFile.table[1].n_track_points = 2
    /\ tracksFile.table[1].ISO_TIME = tracksFile.table[2].ISO_TIME
    /\ stormsFile.table[2].n_track_points = 1

\* C28: in the landfall script, from the aggregation on, the five
\* first_landfall columns of every storm are the values of one row of the
\* tracks: an on-land row of the storm with no earlier on-land row, its
\* NATURE as it stands, missing or not.
C28_FirstLandfallFromOneRow ==
    (script = "landfall"
       /\ pc \in {"aggregated", "labelled", "tracks_written", "done"}) =>
        \A i \in 1..Len(storms) :
            \E r \in Range(tracks) :
                /\ r.SID = storms[i].SID
                /\ r.on_ph_land
                /\ \A o \in Range(tracks) :
                       (o.SID = r.SID /\ o.on_ph_land) => r.ISO_TIME <= o.ISO_TIME
                /\ storms[i].first_landfall_time = {r.ISO_TIME}
                /\ storms[i].first_landfall_lat = {r.LAT}
                /\ storms[i].first_landfall_lon = {r.LON_180}
                /\ storms[i].first_landfall_wind = {r.USA_WIND}
                /\ storms[i].first_landfall_nature = r.NATURE

\* every vertex of the landmass rings of the boundary file is inside the PAR
\* polygon
LandInsidePar ==
    \A p \in Range(LoadGeojsonPaths(geoFile).paths) :
        \A v \in Range(p) : ContainsPoint(PAR_POLYGON, v[1], v[2])

\* C26: when the landfall script has completed on a boundary file whose
\* landmass lies inside the PAR polygon, every SID of its storms CSV is in
\* the storms CSV the PAR script writes from the same raw file, and the
\* landfall conversion rate of the two tables is at most 100%.
C26_LandfallWithinPar ==
    (script = "landfall" /\ pc = "done" /\ rawFile.exists /\ LandInsidePar) =>
        LET par == PipelineStorms("par", rawFile.rows)
            rate == ConversionRate(par, stormsFile.table)
        IN  /\ Sids(stormsFile.table) \subseteq Sids(par)
            /\ rate[1] <= 100 * rate[2]

\* C25: a script writes the tracks CSV first and the storms CSV second, each
\* straight onto the file of the previous run; until the first write both
\* files are the previous run's; a run stopped between the two writes leaves
\* the new run's tracks next to the previous run's storms, and nothing in
\* either file tells a reader so.
C25_TracksThenStormsInPlace ==
    /\ [][/\ tracksFile' # tracksFile =>
                (pc = "labelled" /\ stormsFile' = stormsFile)
          /\ stormsFile' # stormsFile =>
                (pc = "tracks_written" /\ tracksFile' = tracksFile)]_vars
    /\ [](/\ pc \in {"start", "loaded", "flagged", "deduped", "aggregated",
                     "labelled", "stopped before tracks"} =>
                (tracksFile = prevOut.tracks /\ stormsFile = prevOut.storms)
          /\ pc \in {"tracks_written", "stopped between the writes"} =>
                /\ tracksFile = [exists |-> TRUE, table |-> tracks]
                /\ stormsFile = prevOut.storms
          /\ pc = "done" =>
                /\ tracksFile = [exists |-> TRUE, table |-> tracks]
                /\ stormsFile = [exists |-> TRUE, table |-> storms])

\* a run stopped between the writes: the tracks CSV holds storm B only, the
\* storms CSV storm A only
C25_Witness ==
    /\ pc = "stopped between the writes"
    /\ Sids(tracksFile.table) = {"B"}
    /\ Sids(stormsFile.table) = {"A"}
    /\ Sids(prevOut.tracks.table) = {"A"}


\* C30: in the explorer, the sidebar filter labelled "Landfall intensity"
\* keeps a storm exactly when its landfall_intensity is among the selected
\* classes and its start_year lies in the selected year range, and in the
\* "Landfall intensity" colour mode every drawn track has the colour of its
\* storm's landfall_intensity.
C30_FilterAndColourByLandfallIntensity ==
    shown.status \in {"rendered", "stopped"} =>
        LET storms_df == view.tables[1]
            Kept(sid) == \E i \in 1..Len(shown.storms_f) :
                            shown.storms_f[i].SID = sid
        IN  /\ \A i \in 1..Len(storms_df) :
                  Kept(storms_df[i].SID) <=>
                     /\ storms_df[i].landfall_intensity \in sidebar.intensities
                     /\ sidebar.year_min <= storms_df[i].start_year
                     /\ storms_df[i].start_year <= sidebar.year_max
            /\ sidebar.color_mode = "Landfall intensity" =>
                  \A j \in 1..Len(shown.paths) :
                     \A i \in 1..Len(storms_df) :
                        storms_df[i].SID = shown.paths[j].SID =>
                           shown.paths[j].color =
                              IntensityRgba(storms_df[i].landfall_intensity)

====
